---- MODULE Spec2Model ----
(***************************************************************************)
(* Model of the GameplayReplication plugin.                                *)
(*                                                                         *)
(* Part 1: URewindableComponent, the per-entity rewind history             *)
(* (GameplayReplicationGraph.cpp 967-1211, GameplayReplicationGraph-       *)
(* Settings.h 100-196).                                                    *)
(*                                                                         *)
(* Time.  World time is a double; the model counts it in integer units.    *)
(* GetFramePackage narrows the oldest and newest snapshot times to float   *)
(* before comparing them with the double query time.  One model time unit  *)
(* is a quarter of the float spacing at the magnitude of the world time,   *)
(* so the floats are the multiples of 4 and narrowing rounds to the        *)
(* nearest of them, ties to the even mantissa (ToFloat).  Differences of   *)
(* two times (HistoryLength, Distance) are small against the times         *)
(* themselves, where the float spacing is far below one model unit, so     *)
(* their narrowing loses nothing the model can see.                        *)
(*                                                                         *)
(* Coordinates.  An FVector is a triple of rationals <<n, d>> in lowest    *)
(* terms with d > 0, so that interpolated boxes are exact.                 *)
(***************************************************************************)
EXTENDS Integers, Sequences, FiniteSets, TLC

\* ------------------------------------------------------------------ bounds
MaxTime == 6           \* no record is taken after this world time
MaxDelta == 2          \* a tick advances world time by 1..MaxDelta units
MaxRecordBound == 1    \* MaxRecordTime is one of 0..MaxRecordBound

\* ------------------------------------------------------------------ inputs
Positions == {0, 1}    \* where the owner may stand when a snapshot is taken
QueryTimes == 0..(MaxTime + 1)   \* the times a query may ask for

VARIABLES
    now,                \* UWorld::GetTimeSeconds()
    HasAuthority,       \* GetOwner()->HasAuthority()
    MaxRecordTime,      \* URewindableComponent::MaxRecordTime
    bJustTeleported,    \* URewindableComponent::bJustTeleported
    FrameHistory,       \* URewindableComponent::FrameHistory, head first
    nullDeref,          \* the eviction loop dereferenced the head of an empty list
    teleportRequested,  \* argument of the last SetJustTeleported since the last tick
    queried,            \* a query has just returned
    QueryTime,          \* InTime of the last GetFramePackage
    ResultKind,         \* the return statement the last GetFramePackage took
    Result,             \* what the last GetFramePackage returned
    RewoundHitBox       \* what the last GetRewoundHitBox returned

rewindVars ==
    <<now, HasAuthority, MaxRecordTime, bJustTeleported, FrameHistory, nullDeref,
      teleportRequested, queried, QueryTime, ResultKind, Result, RewoundHitBox>>

VARIABLES
    CDO,                   \* class -> the flags of Class->GetDefaultObject<AActor>()
    ClassSettings,         \* UGameplayReplicationGraphSettings::ClassSettings
    CharacterClass,        \* the class that is ACharacter::StaticClass()
    BasePawnClass,         \* UGameplayReplicationGraphSettings::BasePawnClass
    LoadedClasses,         \* the classes TObjectIterator<UClass> finds at initialisation
    bInitialized,          \* InitGlobalActorClassSettings has run
    ClassRepNodePolicies,  \* UGameplayReplicationGraph::ClassRepNodePolicies
    ExplicitlySetClasses,  \* UGameplayReplicationGraph::ExplicitlySetClasses
    ClassInfoMap,          \* GlobalActorReplicationInfoMap, its per-class part
    PolicyCall             \* argument and return value of the last GetMappingPolicy

policyVars ==
    <<CDO, ClassSettings, CharacterClass, BasePawnClass, LoadedClasses, bInitialized,
      ClassRepNodePolicies, ExplicitlySetClasses, ClassInfoMap, PolicyCall>>

VARIABLES
    ActiveNetworkActors,   \* the actors added to the graph and not removed: actor ->
                           \* its class, its streaming level, the category it was added under
    AlwaysRelevantNode,    \* the actor list of UGameplayReplicationGraph::AlwaysRelevantNode
    AlwaysRelevantStreamingLevelActors,  \* level name -> actor list
    GridNode,              \* the actors UGameplayReplicationGraph::GridNode holds
    ConnectionNodes,       \* connection -> its UGameRepGraphNode_AlwaysRelevant_ForConnection
    fatalError,            \* FindChecked found no list for the level name
    LastAdd                \* the actor of the last RouteAddNetworkActorToNodes and the
                           \* nodes before it, while no other routing call has followed

nodeVars == <<AlwaysRelevantNode, AlwaysRelevantStreamingLevelActors, GridNode>>
routeVars == <<ActiveNetworkActors, nodeVars, ConnectionNodes, fatalError, LastAdd>>

\* UGameRepGraphNode_PlayerStateFrequencyLimiter and the player states of the
\* world
VARIABLES
    PlayerStates,          \* the APlayerState actors of the world in the order of
                           \* TActorIterator: for each, whether it
                           \* IsActorValidForReplicationGather
    TargetActorsPerFrame,  \* UGameRepGraphNode_PlayerStateFrequencyLimiter::TargetActorsPerFrame
    ReplicationActorLists, \* ...::ReplicationActorLists, each list the indices of
                           \* its player states
    ForceNetUpdateReplicationActorList,
    bPrepared              \* ghost: PrepareForReplication ran since TargetActorsPerFrame
                           \* was last assigned

limiterVars == <<PlayerStates, TargetActorsPerFrame, ReplicationActorLists,
                 ForceNetUpdateReplicationActorList, bPrepared>>

\* The replication frame: the connections, their viewers and what the driver
\* keeps for each connection
VARIABLES
    ReplicationFrameNum,     \* the frame number the driver passes as Params.ReplicationFrameNum
    ForceNetUpdatePending,   \* the player states with a pending ForceNetUpdate
    ClientConnections,       \* the connections of the graph, in the order of their
                             \* ConnectionOrderNum
    Viewers,                 \* connection -> the viewer of Params.Viewers
    bInitializedPlayerState, \* connection -> the flag of its per-connection node
    ClientVisibleLevelNames, \* connection -> the levels the client reported visible
    bDormantOnConnection,    \* connection -> the actors whose
                             \* FConnectionReplicationActorInfo::bDormantOnConnection is set
    GatherLog,               \* ghost: what each frame gathered, oldest first
    LastGather               \* ghost: the last gather for one connection, while no
                             \* other call has followed

frameVars ==
    <<ReplicationFrameNum, ForceNetUpdatePending, ClientConnections, Viewers,
      bInitializedPlayerState, ClientVisibleLevelNames, bDormantOnConnection,
      GatherLog>>

\* What the actions of one part leave alone
notRewindVars == <<policyVars, routeVars, limiterVars, frameVars, LastGather>>
notPolicyVars == <<rewindVars, routeVars, limiterVars, frameVars, LastGather>>
notRouteVars == <<rewindVars, limiterVars, frameVars>>
notLimiterVars == <<rewindVars, policyVars, routeVars, frameVars, LastGather>>

\* ---------------------------------------------------------------- rationals
RECURSIVE GCD(_, _)
GCD(a, b) == IF b = 0 THEN a ELSE GCD(b, a % b)

Abs(x) == IF x < 0 THEN -x ELSE x

\* n/d in lowest terms, d > 0
Rat(n, d) ==
    LET s == IF d < 0 THEN -1 ELSE 1
        g == GCD(Abs(n), Abs(d))
    IN  <<(s * n) \div g, (s * d) \div g>>

RInt(n) == <<n, 1>>
RAdd(p, q) == Rat(p[1] * q[2] + q[1] * p[2], p[2] * q[2])
RSub(p, q) == Rat(p[1] * q[2] - q[1] * p[2], p[2] * q[2])
RMul(p, q) == Rat(p[1] * q[1], p[2] * q[2])
RLeq(p, q) == p[1] * q[2] <= q[1] * p[2]
RLess(p, q) == p[1] * q[2] < q[1] * p[2]

\* FMath::Clamp(X, Min, Max)
Clamp(x, lo, hi) == IF RLess(x, lo) THEN lo ELSE IF RLess(x, hi) THEN x ELSE hi

\* ------------------------------------------------------------------ vectors
FVector(x, y, z) == <<RInt(x), RInt(y), RInt(z)>>
VSub(u, v) == <<RSub(u[1], v[1]), RSub(u[2], v[2]), RSub(u[3], v[3])>>
VAdd(u, v) == <<RAdd(u[1], v[1]), RAdd(u[2], v[2]), RAdd(u[3], v[3])>>
VScale(u, s) == <<RMul(u[1], s), RMul(u[2], s), RMul(u[3], s)>>
SizeSquared(u) == RAdd(RAdd(RMul(u[1], u[1]), RMul(u[2], u[2])), RMul(u[3], u[3]))

\* FMath::VInterpTo(Current, Target, DeltaTime, InterpSpeed).  The snapshots'
\* corners are whole numbers, so Dist.SizeSquared() is below
\* KINDA_SMALL_NUMBER (1e-4) exactly when it is zero.
VInterpTo(Current, Target, DeltaTime, InterpSpeed) ==
    IF RLeq(InterpSpeed, RInt(0)) THEN Target
    ELSE LET Dist == VSub(Target, Current) IN
         IF SizeSquared(Dist) = RInt(0) THEN Target
         ELSE VAdd(Current,
                   VScale(Dist, Clamp(RMul(DeltaTime, InterpSpeed), RInt(0), RInt(1))))

\* -------------------------------------------------------------- frame package
\* FBox(ForceInit)
ForceInitBox == [Min |-> FVector(0, 0, 0), Max |-> FVector(0, 0, 0), IsValid |-> 0]

\* FFramePackage()
DefaultFramePackage == [HitBox |-> ForceInitBox, bTeleported |-> FALSE, Time |-> 0]

\* GetOwner()->GetComponentsBoundingBox() of an owner standing at position p
OwnerBox(p) ==
    [Min |-> FVector(3 * p, 0, 0), Max |-> FVector(3 * p + 2, 1, 2), IsValid |-> 1]

\* FFramePackage::IsValid
IsValid(Package) == Package.Time > 0

\* UpdateFramePackage(FFramePackage&, bool): the snapshot of the current state
NewFramePackage(time, pos, bInTeleported) ==
    [HitBox |-> OwnerBox(pos), bTeleported |-> bInTeleported, Time |-> time]

\* double -> float, round to nearest, ties to even
ToFloat(x) ==
    LET r == x % 4
        b == x - r
    IN  IF r = 0 THEN x
        ELSE IF r = 1 THEN b
        ELSE IF r = 3 THEN b + 4
        ELSE IF b % 8 = 0 THEN b ELSE b + 4

\* ----------------------------------------------------------------- the list
GetHead(h) == h[1]
GetTail(h) == h[Len(h)]

AddTailMutant(h, x) == Append(h, x)

\* TDoubleLinkedList::AddHead
AddHead(h, x) == <<x>> \o h

\* RemoveNode(GetTail())
RemoveTail(h) == SubSeq(h, 1, Len(h) - 1)

\* ------------------------------------------------------------------- record
\* head.Time - tail.Time
HistoryLength(h) == GetHead(h).Time - GetTail(h).Time

ExceedsOrEqualsMutant(len, max) == len >= max

\* the loop condition HistoryLength > MaxRecordTime
ExceedsMaxRecordTime(len, max) == len > max

\* The clean-up loop.  It reads the head and the tail after every removal; on
\* an emptied list that is a null dereference, reported as null |-> TRUE.
RECURSIVE CleanUpOldFrames(_, _)
CleanUpOldFrames(h, max) ==
    IF h = <<>> THEN [hist |-> h, null |-> TRUE]
    ELSE IF ExceedsMaxRecordTime(HistoryLength(h), max)
         THEN CleanUpOldFrames(RemoveTail(h), max)
         ELSE [hist |-> h, null |-> FALSE]

\* UpdateFramePackage(bool) on an authoritative owner
RecordFrame(h, max, time, pos, bInTeleported) ==
    IF Len(h) <= 1
    THEN [hist |-> AddHead(h, NewFramePackage(time, pos, bInTeleported)), null |-> FALSE]
    ELSE LET c == CleanUpOldFrames(h, max) IN
         IF c.null THEN c
         ELSE [hist |-> AddHead(c.hist, NewFramePackage(time, pos, bInTeleported)),
               null |-> FALSE]

\* -------------------------------------------------------------------- query
\* The search loop of GetFramePackage: march from the head towards the tail
\* until the snapshot at Older is not younger than InTime.  Yields the
\* positions <<Older, Younger>>.
RECURSIVE March(_, _, _, _)
March(h, Older, Younger, InTime) ==
    IF h[Older].Time > InTime
    THEN IF Older = Len(h) THEN <<Older, Younger>>
         ELSE LET o == Older + 1 IN
              March(h, o, IF h[o].Time > InTime THEN o ELSE Younger, InTime)
    ELSE <<Older, Younger>>

\* Clamp((Time - A.Time) / Distance, 0, 1).  A zero Distance divides to -inf,
\* NaN or +inf, which Clamp takes to 0, 1 and 1.
InterpFraction(A, B, Time) ==
    LET Distance == B.Time - A.Time IN
    IF Distance = 0 THEN (IF Time < A.Time THEN RInt(0) ELSE RInt(1))
    ELSE Clamp(Rat(Time - A.Time, Distance), RInt(0), RInt(1))

InterpTeleportedAndMutant(A, B) == A.bTeleported /\ B.bTeleported

\* InterpFramePackage.bTeleported
InterpTeleported(A, B) == A.bTeleported \/ B.bTeleported

\* URewindableComponent::InterpBetweenFrames.  The result starts as a default
\* package, so its box keeps IsValid = 0; only Min and Max are assigned.
InterpBetweenFrames(A, B, Time) ==
    LET f == InterpFraction(A, B, Time) IN
    [HitBox |-> [Min |-> VInterpTo(A.HitBox.Min, B.HitBox.Min, RInt(1), f),
                 Max |-> VInterpTo(A.HitBox.Max, B.HitBox.Max, RInt(1), f),
                 IsValid |-> 0],
     bTeleported |-> InterpTeleported(A, B),
     Time |-> Time]

\* const float OldestHistoryTime, NewestHistoryTime
OldestHistoryTime(h) == ToFloat(GetTail(h).Time)
NewestHistoryTime(h) == ToFloat(GetHead(h).Time)

\* URewindableComponent::GetFramePackage.  s1..s3 follow FrameToCheck and
\* bShouldInterpolate through the three tests that may assign them.  Kind
\* names the return statement taken: the early return of a default package,
\* the stored snapshot in FrameToCheck, or the interpolated package.
FindFrame(h, InTime) ==
    IF h = <<>> THEN [Kind |-> "NotFound", Frame |-> DefaultFramePackage]
    ELSE IF OldestHistoryTime(h) > InTime
    THEN [Kind |-> "NotFound", Frame |-> DefaultFramePackage]
    ELSE LET s0 == [FrameToCheck |-> DefaultFramePackage, bShouldInterpolate |-> TRUE]
             s1 == IF OldestHistoryTime(h) = InTime
                   THEN [FrameToCheck |-> GetTail(h), bShouldInterpolate |-> FALSE]
                   ELSE s0
             s2 == IF NewestHistoryTime(h) <= InTime
                   THEN [FrameToCheck |-> GetHead(h), bShouldInterpolate |-> FALSE]
                   ELSE s1
             m == March(h, 1, 1, InTime)
             Older == h[m[1]]
             Younger == h[m[2]]
             s3 == IF Older.Time = InTime
                   THEN [FrameToCheck |-> Older, bShouldInterpolate |-> FALSE]
                   ELSE s2
         IN  IF s3.bShouldInterpolate
             THEN [Kind |-> "Interpolated",
                   Frame |-> InterpBetweenFrames(Older, Younger, InTime)]
             ELSE [Kind |-> "Stored", Frame |-> s3.FrameToCheck]

GetFramePackage(h, InTime) == FindFrame(h, InTime).Frame

\* URewindableComponent::GetRewoundHitBox at world time `time`, the owner
\* standing at pos.  TargetHitBox is the owner's bounding box of this moment;
\* the branch taken for a positive PredictionTime has an empty body, so
\* neither arm assigns TargetHitBox again.
GetRewoundHitBox(time, InTime, pos) ==
    LET TargetHitBox == OwnerBox(pos)
        PredictionTime == time - InTime
    IN  IF PredictionTime > 0 THEN TargetHitBox ELSE TargetHitBox

\* ------------------------------------------------------------------ actions
RewindInit ==
    /\ now = 0
    /\ HasAuthority \in BOOLEAN
    /\ MaxRecordTime \in 0..MaxRecordBound
    /\ bJustTeleported = FALSE
    /\ FrameHistory = <<>>
    /\ nullDeref = FALSE
    /\ teleportRequested = FALSE
    /\ queried = FALSE
    /\ QueryTime = 0
    /\ ResultKind = "NotFound"
    /\ Result = DefaultFramePackage
    /\ RewoundHitBox = ForceInitBox

\* The value a query returned is consumed by its caller before anything else
\* runs
NoQuery ==
    /\ queried' = FALSE
    /\ QueryTime' = 0
    /\ ResultKind' = "NotFound"
    /\ Result' = DefaultFramePackage
    /\ RewoundHitBox' = ForceInitBox

\* URewindableComponent::SetJustTeleported: the body is empty
SetJustTeleported(bInJustTeleported) ==
    /\ ~nullDeref
    /\ teleportRequested' = bInJustTeleported
    /\ NoQuery
    /\ UNCHANGED <<now, HasAuthority, MaxRecordTime, bJustTeleported, FrameHistory,
                   nullDeref>>
    /\ UNCHANGED notRewindVars

UpdateWithoutAuthorityMutant(time, pos, bInTeleported) ==
    RecordFrame(FrameHistory, MaxRecordTime, time, pos, bInTeleported)

\* The history and the null flag after UpdateFramePackage(bInTeleported) at
\* world time `time`
UpdateFramePackage(time, pos, bInTeleported) ==
    IF HasAuthority
    THEN RecordFrame(FrameHistory, MaxRecordTime, time, pos, bInTeleported)
    ELSE [hist |-> FrameHistory, null |-> FALSE]

\* URewindableComponent::TickComponent, in a frame that advanced world time
\* by DeltaTime and found the owner at pos
TickComponent(DeltaTime, pos) ==
    /\ ~nullDeref
    /\ now + DeltaTime <= MaxTime
    /\ now' = now + DeltaTime
    /\ LET r == UpdateFramePackage(now + DeltaTime, pos, bJustTeleported) IN
         /\ FrameHistory' = r.hist
         /\ nullDeref' = r.null
    /\ bJustTeleported' = IF HasAuthority THEN FALSE ELSE bJustTeleported
    /\ teleportRequested' = FALSE
    /\ NoQuery
    /\ UNCHANGED <<HasAuthority, MaxRecordTime>>
    /\ UNCHANGED notRewindVars

\* A caller's own UpdateFramePackage(bInTeleported), in a later frame
CallUpdateFramePackage(DeltaTime, pos, bInTeleported) ==
    /\ ~nullDeref
    /\ now + DeltaTime <= MaxTime
    /\ now' = now + DeltaTime
    /\ LET r == UpdateFramePackage(now + DeltaTime, pos, bInTeleported) IN
         /\ FrameHistory' = r.hist
         /\ nullDeref' = r.null
    /\ NoQuery
    /\ UNCHANGED <<HasAuthority, MaxRecordTime, bJustTeleported, teleportRequested>>
    /\ UNCHANGED notRewindVars

QueryDropsTailMutant(InTime) ==
    /\ ~nullDeref
    /\ queried' = TRUE
    /\ QueryTime' = InTime
    /\ ResultKind' = FindFrame(FrameHistory, InTime).Kind
    /\ Result' = GetFramePackage(FrameHistory, InTime)
    /\ RewoundHitBox' = ForceInitBox
    /\ FrameHistory' = IF Len(FrameHistory) > 1 THEN RemoveTail(FrameHistory)
                                                ELSE FrameHistory
    /\ UNCHANGED <<now, HasAuthority, MaxRecordTime, bJustTeleported, nullDeref,
                   teleportRequested>>
    /\ UNCHANGED notRewindVars

\* A lag-compensation query GetFramePackage(InTime)
CallGetFramePackage(InTime) ==
    /\ ~nullDeref
    /\ queried' = TRUE
    /\ QueryTime' = InTime
    /\ ResultKind' = FindFrame(FrameHistory, InTime).Kind
    /\ Result' = GetFramePackage(FrameHistory, InTime)
    /\ RewoundHitBox' = ForceInitBox
    /\ UNCHANGED <<now, HasAuthority, MaxRecordTime, bJustTeleported, FrameHistory,
                   nullDeref, teleportRequested>>
    /\ UNCHANGED notRewindVars

\* A lag-compensation query GetRewoundHitBox(InTime), made while the owner
\* stands at pos
CallGetRewoundHitBox(InTime, pos) ==
    /\ ~nullDeref
    /\ queried' = FALSE
    /\ QueryTime' = InTime
    /\ ResultKind' = "HitBox"
    /\ Result' = DefaultFramePackage
    /\ RewoundHitBox' = GetRewoundHitBox(now, InTime, pos)
    /\ UNCHANGED <<now, HasAuthority, MaxRecordTime, bJustTeleported, FrameHistory,
                   nullDeref, teleportRequested>>
    /\ UNCHANGED notRewindVars

RewindNext ==
    \/ \E b \in BOOLEAN : SetJustTeleported(b)
    \/ \E dt \in 1..MaxDelta, p \in Positions : TickComponent(dt, p)
    \/ \E dt \in 1..MaxDelta, p \in Positions, b \in BOOLEAN :
           CallUpdateFramePackage(dt, p, b)
    \/ \E t \in QueryTimes : t <= now + 1 /\ CallGetFramePackage(t)
    \/ \E t \in QueryTimes, p \in Positions :
           t <= now + 1 /\ CallGetRewoundHitBox(t, p)


\* =========================================================== class policy
\* Part 2: UGameplayReplicationGraph, the category (EClassRepNodeMapping) and
\* the FClassReplicationInfo of every actor class
\* (GameplayReplicationGraph.cpp 149-372, 511-639).
\*
\* The class tree is AActor ("Actor") with a subclass "A" and its subclass
\* "B"; the super class of AActor is UObject ("Object"), whose default object
\* is no actor.  The legacy replication flags of the class default objects,
\* the override table, the classes playing ACharacter and BasePawnClass and
\* the classes loaded when the graph initialises are the configuration.

Types == {"Actor", "A", "B"}
NoClass == "None"                                  \* nullptr

\* UClass::GetSuperClass
GetSuperClass(Class) ==
    CASE Class = "B" -> "A"
      [] Class = "A" -> "Actor"
      [] Class = "Actor" -> "Object"
      [] OTHER -> NoClass

\* UClass::IsChildOf: Class is SomeBase or derives from it
RECURSIVE IsChildOf(_, _)
IsChildOf(Class, SomeBase) ==
    IF Class = NoClass THEN FALSE
    ELSE Class = SomeBase \/ IsChildOf(GetSuperClass(Class), SomeBase)

\* enum class EClassRepNodeMapping : uint8, in declaration order
EClassRepNodeMapping ==
    <<"NotRouted", "RelevantAllConnections", "Spatialize_Static",
      "Spatialize_Dynamic", "Spatialize_Dormancy">>
Mappings == {EClassRepNodeMapping[i] : i \in 1..Len(EClassRepNodeMapping)}
MappingValue(Mapping) ==
    CHOOSE i \in 1..Len(EClassRepNodeMapping) : EClassRepNodeMapping[i] = Mapping

\* UGameplayReplicationGraph::IsSpatialized: Mapping >= Spatialize_Static
IsSpatialized(Mapping) == MappingValue(Mapping) >= MappingValue("Spatialize_Static")

\* The flags of a class default object that the graph reads
LegacyFlags ==
    [bReplicates : BOOLEAN, bAlwaysRelevant : BOOLEAN,
     bOnlyRelevantToOwner : BOOLEAN, bNetUseOwnerRelevancy : BOOLEAN]
ActorFlags ==
    [bReplicates |-> FALSE, bAlwaysRelevant |-> FALSE,
     bOnlyRelevantToOwner |-> FALSE, bNetUseOwnerRelevancy |-> FALSE]

\* TClassMap::Set, TMap::Add
MapSet(Map, Key, Value) ==
    [k \in (DOMAIN Map) \cup {Key} |-> IF k = Key THEN Value ELSE Map[k]]
EmptyMap == [k \in {} |-> "NotRouted"]

\* The lambda ShouldSpatialize of GetClassNodeMapping
ShouldSpatialize(Flags) ==
    /\ Flags.bReplicates
    /\ ~(Flags.bAlwaysRelevant \/ Flags.bOnlyRelevantToOwner
            \/ Flags.bNetUseOwnerRelevancy)

NeverSameMutant(SuperFlags, Flags) == FALSE

\* The comparison of the class default object with its super class's one
SameLegacySettings(SuperFlags, Flags) ==
    /\ SuperFlags.bReplicates = Flags.bReplicates
    /\ SuperFlags.bAlwaysRelevant = Flags.bAlwaysRelevant
    /\ SuperFlags.bOnlyRelevantToOwner = Flags.bOnlyRelevantToOwner
    /\ SuperFlags.bNetUseOwnerRelevancy = Flags.bNetUseOwnerRelevancy

DerivedIgnoresOwnerMutant(Flags) ==
    IF ShouldSpatialize(Flags) THEN "Spatialize_Dynamic"
    ELSE IF Flags.bAlwaysRelevant THEN "RelevantAllConnections" ELSE "NotRouted"

\* The category derived from the flags alone, the last statements of
\* GetClassNodeMapping
DerivedMapping(Flags) ==
    IF ShouldSpatialize(Flags) THEN "Spatialize_Dynamic"
    ELSE IF Flags.bAlwaysRelevant /\ ~Flags.bOnlyRelevantToOwner
         THEN "RelevantAllConnections"
         ELSE "NotRouted"

\* UGameplayReplicationGraph::GetClassNodeMapping, Policies being
\* ClassRepNodePolicies
RECURSIVE GetClassNodeMapping(_, _)
GetClassNodeMapping(Policies, Class) ==
    IF Class = NoClass THEN "NotRouted"
    ELSE IF Class \in DOMAIN Policies THEN Policies[Class]
    ELSE IF Class \notin Types \/ ~CDO[Class].bReplicates THEN "NotRouted"
    ELSE LET SuperClass == GetSuperClass(Class) IN
         IF SuperClass \in Types /\ SameLegacySettings(CDO[SuperClass], CDO[Class])
         THEN GetClassNodeMapping(Policies, SuperClass)
         ELSE DerivedMapping(CDO[Class])

\* UGameplayReplicationGraph::AddClassRepInfo
AddClassRepInfo(Policies, Class, Mapping) == MapSet(Policies, Class, Mapping)

RegisterDerivedMutant(Policies, Class) ==
    MapSet(Policies, Class, DerivedMapping(CDO[Class]))

\* UGameplayReplicationGraph::RegisterClassRepNodeMapping
RegisterClassRepNodeMapping(Policies, Class) ==
    MapSet(Policies, Class, GetClassNodeMapping(Policies, Class))

\* TClassMap::Get on ClassRepNodePolicies.  A class without a value of its
\* own takes one only if some super class has a value: InitNewElement, which
\* is GetClassNodeMapping, computes it and the map stores it under the class.
\* TClassMap::GetClassInfoForNewClass_r: the nearest super class with a value
\* in the map, nullptr if there is none
RECURSIVE StoredSuper(_, _)
StoredSuper(Map, Class) ==
    LET SuperClass == GetSuperClass(Class) IN
    IF SuperClass = NoClass \/ SuperClass \in DOMAIN Map THEN SuperClass
    ELSE StoredSuper(Map, SuperClass)

PoliciesGetStoresSuperMutant(Policies, Class) ==
    IF Class \in DOMAIN Policies
    THEN [Found |-> TRUE, Value |-> Policies[Class], Map |-> Policies]
    ELSE IF StoredSuper(Policies, Class) # NoClass
         THEN [Found |-> TRUE, Value |-> GetClassNodeMapping(Policies, Class),
               Map |-> MapSet(Policies, Class, Policies[StoredSuper(Policies, Class)])]
         ELSE [Found |-> FALSE, Value |-> "NotRouted", Map |-> Policies]

PoliciesGet(Policies, Class) ==
    IF Class \in DOMAIN Policies
    THEN [Found |-> TRUE, Value |-> Policies[Class], Map |-> Policies]
    ELSE IF StoredSuper(Policies, Class) # NoClass
         THEN LET NodeMapping == GetClassNodeMapping(Policies, Class) IN
              [Found |-> TRUE, Value |-> NodeMapping,
               Map |-> MapSet(Policies, Class, NodeMapping)]
         ELSE [Found |-> FALSE, Value |-> "NotRouted", Map |-> Policies]

\* UGameplayReplicationGraph::GetMappingPolicy: the category returned and the
\* map the call leaves behind
GetMappingPolicy(Policies, Class) ==
    LET r == PoliciesGet(Policies, Class) IN
    [Policy |-> IF r.Found THEN r.Value ELSE "NotRouted", Map |-> r.Map]

\* FRepGraphActorClassSettings::GetStaticActorClass: the class an entry names,
\* nullptr if it cannot be found or loaded
GetStaticActorClass(Setting) ==
    IF Setting.ActorClass \in Types THEN Setting.ActorClass ELSE NoClass

\* The loop that ends at the first entry whose class is not found
RECURSIVE ApplyStopsAtUnresolvedMutant(_, _)
ApplyStopsAtUnresolvedMutant(Settings, Policies) ==
    IF Settings = <<>> THEN Policies
    ELSE LET ActorClassSetting == Head(Settings)
             StaticActorClass == GetStaticActorClass(ActorClassSetting)
         IN  IF StaticActorClass = NoClass THEN Policies
             ELSE ApplyStopsAtUnresolvedMutant(Tail(Settings),
                      IF ActorClassSetting.bAddClassRepInfoToMap
                      THEN AddClassRepInfo(Policies, StaticActorClass,
                                           ActorClassSetting.ClassNodeMapping)
                      ELSE Policies)

\* The loop over ClassSettings of InitGlobalActorClassSettings
RECURSIVE ApplyClassSettings(_, _)
ApplyClassSettings(Settings, Policies) ==
    IF Settings = <<>> THEN Policies
    ELSE LET ActorClassSetting == Head(Settings)
             StaticActorClass == GetStaticActorClass(ActorClassSetting)
         IN  ApplyClassSettings(Tail(Settings),
                 IF ActorClassSetting.bAddClassRepInfoToMap /\ StaticActorClass # NoClass
                 THEN AddClassRepInfo(Policies, StaticActorClass,
                                      ActorClassSetting.ClassNodeMapping)
                 ELSE Policies)

\* The classes an override-table entry gave a category, and that category
\* (the last entry for a class is the one that stays)
ExplicitMappingClasses ==
    {GetStaticActorClass(ClassSettings[i]) : i \in
        {j \in 1..Len(ClassSettings) :
            /\ ClassSettings[j].bAddClassRepInfoToMap
            /\ GetStaticActorClass(ClassSettings[j]) # NoClass}}
ExplicitMapping(Class) == ApplyClassSettings(ClassSettings, EmptyMap)[Class]

\* AllReplicatedClasses in one of the orders TObjectIterator<UClass> may take
AllReplicatedClassOrders ==
    LET S == {c \in LoadedClasses : CDO[c].bReplicates} IN
    {o \in [1..Cardinality(S) -> S] : \A i, j \in 1..Cardinality(S) : o[i] = o[j] => i = j}

\* The calls of RegisterClassRepNodeMapping in the loop over all classes
RECURSIVE RegisterAllMappings(_, _)
RegisterAllMappings(Order, Policies) ==
    IF Order = <<>> THEN Policies
    ELSE RegisterAllMappings(Tail(Order), RegisterClassRepNodeMapping(Policies, Head(Order)))

\* AActor::GetNetCullDistanceSquared of the class default object and
\* GetReplicationPeriodFrameForFrequency of its NetUpdateFrequency
NetCullDistanceSquared(Class) ==
    CASE Class = "A" -> 100 [] Class = "B" -> 400 [] OTHER -> 900
ReplicationPeriodFrameOf(Class) ==
    CASE Class = "A" -> 2 [] Class = "B" -> 3 [] OTHER -> 4

\* FClassReplicationInfo as its constructor leaves it
DefaultClassInfo ==
    [CullDistanceSquared |-> 0, ReplicationPeriodFrame |-> 1,
     FastSharedReplicationFuncName |-> "None"]

\* CharacterClassRepInfo at the first and at the second SetClassInfo
CharacterClassRepInfo(Pawn) ==
    [DefaultClassInfo EXCEPT !.CullDistanceSquared = NetCullDistanceSquared(Pawn)]
FastSharedClassRepInfo(Pawn) ==
    [CharacterClassRepInfo(Pawn) EXCEPT
        !.FastSharedReplicationFuncName = "FastSharedReplication"]

\* UGameplayReplicationGraph::InitClassReplicationInfo
InitClassReplicationInfo(Info, Class, Spatialize) ==
    [Info EXCEPT
        !.CullDistanceSquared =
            IF Spatialize THEN NetCullDistanceSquared(Class) ELSE @,
        !.ReplicationPeriodFrame = ReplicationPeriodFrameOf(Class)]

NeverExplicitMutant(Explicit, Class) == FALSE

\* The predicate of ConditionalInitClassReplicationInfo: the class is, or
\* derives from, a class of ExplicitlySetClasses
IsExplicitlySet(Explicit, Class) ==
    \E i \in 1..Len(Explicit) : IsChildOf(Class, Explicit[i])

\* UGameplayReplicationGraph::ConditionalInitClassReplicationInfo: the return
\* value and the ClassInfo it leaves to the caller.  The class has its
\* category stored by the time of every call (GetChecked).
ConditionalInitClassReplicationInfo(Explicit, Policies, Class, ClassInfo) ==
    IF IsExplicitlySet(Explicit, Class)
    THEN [bHandled |-> FALSE, ClassInfo |-> ClassInfo]
    ELSE [bHandled |-> TRUE,
          ClassInfo |-> InitClassReplicationInfo(ClassInfo, Class,
                            IsSpatialized(Policies[Class]))]

\* UGameplayReplicationGraph::RegisterClassReplicationInfo
RegisterClassReplicationInfo(Explicit, Policies, InfoMap, Class) ==
    LET r == ConditionalInitClassReplicationInfo(Explicit, Policies, Class, DefaultClassInfo)
    IN  IF r.bHandled THEN MapSet(InfoMap, Class, r.ClassInfo) ELSE InfoMap

RECURSIVE RegisterAllInfos(_, _, _, _)
RegisterAllInfos(Order, Explicit, Policies, InfoMap) ==
    IF Order = <<>> THEN InfoMap
    ELSE RegisterAllInfos(Tail(Order), Explicit, Policies,
             RegisterClassReplicationInfo(Explicit, Policies, InfoMap, Head(Order)))

\* ----------------------------------------------------------- policy actions
NoCall == [Class |-> NoClass, Policy |-> "NotRouted"]

\* The graph as its constructor leaves it
PolicyConstructed ==
    /\ bInitialized = FALSE
    /\ ClassRepNodePolicies = EmptyMap
    /\ ExplicitlySetClasses = <<>>
    /\ ClassInfoMap = EmptyMap
    /\ PolicyCall = NoCall

\* The override tables the model draws from: empty, or one entry
OverrideTables ==
    {<<>>} \cup
    {<<[ActorClass |-> c, bAddClassRepInfoToMap |-> TRUE, ClassNodeMapping |-> m]>> :
        c \in Types, m \in Mappings}

\* Override tables of two entries of which at least one names a class that
\* cannot be found or loaded
UnresolvedClassName == "Missing"
UnresolvedOverrideTables ==
    LET Entries == {[ActorClass |-> c, bAddClassRepInfoToMap |-> TRUE, ClassNodeMapping |-> m] :
                       c \in {"A", "B", UnresolvedClassName}, m \in Mappings}
    IN  {<<e, f>> : e \in Entries, f \in Entries} \
        {<<e, f>> : e \in {x \in Entries : x.ActorClass \in Types},
                    f \in {x \in Entries : x.ActorClass \in Types}}

\* Loading a class loads its super classes; the classes the settings name
\* are loaded when the loop over all classes starts
LoadedClassSets ==
    {S \in SUBSET Types :
        /\ "Actor" \in S
        /\ \A c \in S : GetSuperClass(c) \in Types => GetSuperClass(c) \in S
        /\ {CharacterClass, BasePawnClass} \subseteq S
        /\ ExplicitMappingClasses \subseteq S}

PolicyInit ==
    /\ CDO \in {f \in [Types -> LegacyFlags] : f["Actor"] = ActorFlags}
    /\ ClassSettings \in OverrideTables
    /\ CharacterClass \in {"A", "B"}
    /\ BasePawnClass \in {"A", "B"}
    /\ LoadedClasses \in LoadedClassSets
    /\ PolicyConstructed

\* A graph that plays no part in the specification at hand
PolicyIdle ==
    /\ CDO = [c \in Types |-> ActorFlags]
    /\ ClassSettings = <<>>
    /\ CharacterClass = "A"
    /\ BasePawnClass = "A"
    /\ LoadedClasses = Types
    /\ PolicyConstructed

\* A rewind component that plays no part in the specification at hand
RewindIdle ==
    /\ RewindInit
    /\ HasAuthority = FALSE
    /\ MaxRecordTime = 0

\* UGameplayReplicationGraph::InitGlobalActorClassSettings
InitGlobalActorClassSettings ==
    /\ ~fatalError
    /\ ~bInitialized
    /\ bInitialized' = TRUE
    /\ \E Order \in AllReplicatedClassOrders :
         LET Overridden == ApplyClassSettings(ClassSettings, ClassRepNodePolicies)
             Policies == RegisterAllMappings(Order, Overridden)
             Explicit == <<CharacterClass, BasePawnClass>>
             SetInfos ==
                 MapSet(MapSet(ClassInfoMap, CharacterClass,
                               CharacterClassRepInfo(BasePawnClass)),
                        BasePawnClass, FastSharedClassRepInfo(BasePawnClass))
         IN  /\ ClassRepNodePolicies' = Policies
             /\ ExplicitlySetClasses' = Explicit
             /\ ClassInfoMap' = RegisterAllInfos(Order, Explicit, Policies, SetInfos)
    /\ PolicyCall' = NoCall
    /\ UNCHANGED <<CDO, ClassSettings, CharacterClass, BasePawnClass, LoadedClasses>>
    /\ UNCHANGED notPolicyVars

\* The function given to SetInitClassInfoFunc, run by GlobalActorReplication-
\* InfoMap for a class that has no FClassReplicationInfo of its own while a
\* super class has one.  A class the function does not handle takes a copy
\* of that super class's info.
LazyInitClassInfo(Class) ==
    /\ ~fatalError
    /\ bInitialized
    /\ Class \notin DOMAIN ClassInfoMap
    /\ StoredSuper(ClassInfoMap, Class) # NoClass
    /\ LET Policies == RegisterClassRepNodeMapping(ClassRepNodePolicies, Class)
           r == ConditionalInitClassReplicationInfo(ExplicitlySetClasses, Policies,
                                                    Class, DefaultClassInfo)
       IN  /\ ClassRepNodePolicies' = Policies
           /\ ClassInfoMap' =
                  MapSet(ClassInfoMap, Class,
                         IF r.bHandled THEN r.ClassInfo
                         ELSE ClassInfoMap[StoredSuper(ClassInfoMap, Class)])
    /\ PolicyCall' = NoCall
    /\ UNCHANGED <<CDO, ClassSettings, CharacterClass, BasePawnClass, LoadedClasses,
                   bInitialized, ExplicitlySetClasses>>
    /\ UNCHANGED notPolicyVars

\* A call of GetMappingPolicy(Class).  The graph resolves the class info of
\* an actor's class before it routes the actor, so the class has one.
CallGetMappingPolicy(Class) ==
    /\ ~fatalError
    /\ bInitialized
    /\ Class \in DOMAIN ClassInfoMap
    /\ LET r == GetMappingPolicy(ClassRepNodePolicies, Class) IN
         /\ PolicyCall' = [Class |-> Class, Policy |-> r.Policy]
         /\ ClassRepNodePolicies' = r.Map
    /\ UNCHANGED <<CDO, ClassSettings, CharacterClass, BasePawnClass, LoadedClasses,
                   bInitialized, ExplicitlySetClasses, ClassInfoMap>>
    /\ UNCHANGED notPolicyVars

PolicyNext ==
    \/ InitGlobalActorClassSettings
    \/ \E Class \in Types : LazyInitClassInfo(Class)
    \/ \E Class \in Types : CallGetMappingPolicy(Class)

\* ================================================================= routing
\* Part 3: UGameplayReplicationGraph, the routing of actors to the nodes
\* (GameplayReplicationGraph.cpp 121-147, 418-508).

Actors == {"a1", "a2"}
NAME_None == "NoLevel"
LevelNames == {"L1", "L2"}
Connections == {"c1", "c2", "c3"}

Range(List) == {List[i] : i \in 1..Len(List)}

\* FActorRepListRefView::ConditionalAdd
ConditionalAdd(List, Actor) ==
    IF Actor \in Range(List) THEN List ELSE Append(List, Actor)

\* The list without its element at position i, the last element moved there
RemoveAtSwap(List, i) ==
    LET n == Len(List) IN
    [j \in 1..(n - 1) |-> IF j = i THEN List[n] ELSE List[j]]

\* The list without its element at position i, the order kept
RemoveAt(List, i) ==
    [j \in 1..(Len(List) - 1) |-> IF j < i THEN List[j] ELSE List[j + 1]]

FirstIndex(List, Actor) == CHOOSE i \in 1..Len(List) :
    List[i] = Actor /\ \A j \in 1..(i - 1) : List[j] # Actor

\* FActorRepListRefView::RemoveFast: false if the actor is not in the list
RemoveFast(List, Actor) ==
    IF Actor \in Range(List)
    THEN [bRemoved |-> TRUE, List |-> RemoveAtSwap(List, FirstIndex(List, Actor))]
    ELSE [bRemoved |-> FALSE, List |-> List]

\* UReplicationGraphNode_ActorList::NotifyAddNetworkActor and
\* NotifyRemoveNetworkActor for an actor of the persistent level
NotifyAddNetworkActor(List, Actor) == Append(List, Actor)
NotifyRemoveNetworkActor(List, Actor) ==
    IF Actor \in Range(List) THEN RemoveAt(List, FirstIndex(List, Actor)) ELSE List

\* The nodes as one value
Nodes ==
    [AlwaysRelevantNode |-> AlwaysRelevantNode,
     AlwaysRelevantStreamingLevelActors |-> AlwaysRelevantStreamingLevelActors,
     GridNode |-> GridNode,
     fatalError |-> fatalError]

\* UReplicationGraphNode_GridSpatialization2D::AddActor_Static, _Dynamic,
\* _Dormancy and RemoveActor_Static, _Dynamic, _Dormancy: the grid keeps the
\* actors of each kind; removing an actor it does not hold logs a warning
GridAdd(Grid, Kind, Actor) == [Grid EXCEPT ![Kind] = @ \cup {Actor}]
GridRemove(Grid, Kind, Actor) == [Grid EXCEPT ![Kind] = @ \ {Actor}]

RouteAddBothListsMutant(N, Policy, Actor, StreamingLevelName) ==
    IF Policy = "RelevantAllConnections" /\ StreamingLevelName # NAME_None
    THEN [N EXCEPT
            !.AlwaysRelevantNode = NotifyAddNetworkActor(@, Actor),
            !.AlwaysRelevantStreamingLevelActors =
                MapSet(@, StreamingLevelName,
                       ConditionalAdd(IF StreamingLevelName \in DOMAIN @
                                      THEN @[StreamingLevelName] ELSE <<>>, Actor))]
    ELSE N

\* UGameplayReplicationGraph::RouteAddNetworkActorToNodes, the switch on the
\* category GetMappingPolicy returned
RouteAddNetworkActorToNodes(N, Policy, Actor, StreamingLevelName) ==
    CASE Policy = "NotRouted" -> N
      [] Policy = "RelevantAllConnections" ->
            IF StreamingLevelName = NAME_None
            THEN [N EXCEPT !.AlwaysRelevantNode = NotifyAddNetworkActor(@, Actor)]
            ELSE [N EXCEPT !.AlwaysRelevantStreamingLevelActors =
                     MapSet(@, StreamingLevelName,
                            ConditionalAdd(IF StreamingLevelName \in DOMAIN @
                                           THEN @[StreamingLevelName] ELSE <<>>,
                                           Actor))]
      [] Policy = "Spatialize_Static" ->
            [N EXCEPT !.GridNode = GridAdd(@, "Static", Actor)]
      [] Policy = "Spatialize_Dynamic" ->
            [N EXCEPT !.GridNode = GridAdd(@, "Dynamic", Actor)]
      [] Policy = "Spatialize_Dormancy" ->
            [N EXCEPT !.GridNode = GridAdd(@, "Dormancy", Actor)]

RouteRemoveGlobalOnlyMutant(N, Policy, Actor, StreamingLevelName, bFault) ==
    IF Policy = "RelevantAllConnections"
    THEN [N EXCEPT !.AlwaysRelevantNode = NotifyRemoveNetworkActor(@, Actor)]
    ELSE N

\* UGameplayReplicationGraph::RouteRemoveNetworkActorToNodes, the switch on
\* the category GetMappingPolicy returned.  FindChecked asserts that the map
\* has the level name, and the failed assertion is fatal; a build without the
\* assertion reads through a reference to no list, which either faults
\* (bFault) or finds no actor and goes on.
RouteRemoveNetworkActorToNodes(N, Policy, Actor, StreamingLevelName, bFault) ==
    CASE Policy = "NotRouted" -> N
      [] Policy = "RelevantAllConnections" ->
            IF StreamingLevelName = NAME_None
            THEN [N EXCEPT !.AlwaysRelevantNode = NotifyRemoveNetworkActor(@, Actor)]
            ELSE IF StreamingLevelName \notin DOMAIN N.AlwaysRelevantStreamingLevelActors
                 THEN [N EXCEPT !.fatalError = bFault]
                 ELSE [N EXCEPT !.AlwaysRelevantStreamingLevelActors[StreamingLevelName] =
                          RemoveFast(@, Actor).List]
      [] Policy = "Spatialize_Static" ->
            [N EXCEPT !.GridNode = GridRemove(@, "Static", Actor)]
      [] Policy = "Spatialize_Dynamic" ->
            [N EXCEPT !.GridNode = GridRemove(@, "Dynamic", Actor)]
      [] Policy = "Spatialize_Dormancy" ->
            [N EXCEPT !.GridNode = GridRemove(@, "Dormancy", Actor)]

\* ---------------------------------------------------------- routing actions
ConstructedNodes ==
    [AlwaysRelevantNode |-> <<>>,
     AlwaysRelevantStreamingLevelActors |-> EmptyMap,
     GridNode |-> [Static |-> {}, Dynamic |-> {}, Dormancy |-> {}],
     fatalError |-> FALSE]
NoAdd == [Actor |-> "None", Nodes |-> ConstructedNodes]
NoGather == [Connection |-> "None", FrameNum |-> 0, Tracked |-> <<>>, Out |-> <<>>]

\* UGameRepGraphNode_AlwaysRelevant_ForConnection as constructed, and as its
\* ResetGameWorldState leaves it
ResetConnectionNode ==
    [ReplicationActorList |-> <<>>,
     AlwaysRelevantStreamingLevelsNeedingReplication |-> <<>>]

\* The graph's nodes as InitGlobalGraphNodes and InitConnectionGraphNodes
\* leave them
RouteConstructed ==
    /\ ActiveNetworkActors = EmptyMap
    /\ AlwaysRelevantNode = ConstructedNodes.AlwaysRelevantNode
    /\ AlwaysRelevantStreamingLevelActors = EmptyMap
    /\ GridNode = ConstructedNodes.GridNode
    /\ ConnectionNodes = [c \in Connections |-> ResetConnectionNode]
    /\ fatalError = FALSE
    /\ LastAdd = NoAdd

\* The flags the classes "A" and "B" take in the routing specification: a
\* replicated class without relevance flag, an always relevant one, one only
\* relevant to its owner, and a class that is not replicated
RouteFlags ==
    {[ActorFlags EXCEPT !.bReplicates = TRUE],
     [ActorFlags EXCEPT !.bReplicates = TRUE, !.bAlwaysRelevant = TRUE],
     [ActorFlags EXCEPT !.bReplicates = TRUE, !.bAlwaysRelevant = TRUE,
                        !.bOnlyRelevantToOwner = TRUE],
     ActorFlags}

RoutePolicyInit ==
    /\ CDO \in {f \in [Types -> RouteFlags] : f["Actor"] = ActorFlags}
    /\ ClassSettings \in OverrideTables
    /\ CharacterClass = "A"
    /\ BasePawnClass = "A"
    /\ LoadedClasses \in LoadedClassSets
    /\ PolicyConstructed

\* The graph before InitGlobalActorClassSettings, with an override table that
\* has an entry whose class cannot be found or loaded
OverridesPolicyInit ==
    /\ CDO \in {f \in [Types -> RouteFlags] : f["Actor"] = ActorFlags}
    /\ ClassSettings \in UnresolvedOverrideTables
    /\ CharacterClass = "A"
    /\ BasePawnClass = "A"
    /\ LoadedClasses \in LoadedClassSets
    /\ PolicyConstructed

\* The actors other than Actor, with what the graph recorded for them
WithoutActor(Map, Actor) == [a \in (DOMAIN Map) \ {Actor} |-> Map[a]]

\* A call of RouteAddNetworkActorToNodes for an actor of class Class in the
\* streaming level StreamingLevelName.  The graph guards against double adds
\* and has resolved the class info of the actor's class.
CallRouteAdd(Actor, Class, StreamingLevelName) ==
    /\ ~fatalError
    /\ bInitialized
    /\ Actor \notin DOMAIN ActiveNetworkActors
    /\ Class \in DOMAIN ClassInfoMap
    /\ LET r == GetMappingPolicy(ClassRepNodePolicies, Class)
           N == RouteAddNetworkActorToNodes(Nodes, r.Policy, Actor, StreamingLevelName)
       IN  /\ ClassRepNodePolicies' = r.Map
           /\ PolicyCall' = [Class |-> Class, Policy |-> r.Policy]
           /\ AlwaysRelevantNode' = N.AlwaysRelevantNode
           /\ AlwaysRelevantStreamingLevelActors' = N.AlwaysRelevantStreamingLevelActors
           /\ GridNode' = N.GridNode
           /\ fatalError' = N.fatalError
           /\ ActiveNetworkActors' =
                  MapSet(ActiveNetworkActors, Actor,
                         [Class |-> Class, StreamingLevelName |-> StreamingLevelName,
                          Policy |-> r.Policy])
    /\ LastAdd' = [Actor |-> Actor, Nodes |-> Nodes]
    /\ UNCHANGED <<CDO, ClassSettings, CharacterClass, BasePawnClass, LoadedClasses,
                   bInitialized, ExplicitlySetClasses, ClassInfoMap>>
    /\ LastGather' = NoGather
    /\ UNCHANGED <<notRouteVars, ConnectionNodes>>

\* A call of RouteRemoveNetworkActorToNodes.  An actor the graph holds comes
\* with the class and the level it was added with.
CallRouteRemove(Actor, Class, StreamingLevelName, bFault) ==
    /\ ~fatalError
    /\ bInitialized
    /\ Class \in DOMAIN ClassInfoMap
    /\ Actor \in DOMAIN ActiveNetworkActors =>
          /\ Class = ActiveNetworkActors[Actor].Class
          /\ StreamingLevelName = ActiveNetworkActors[Actor].StreamingLevelName
    /\ LET r == GetMappingPolicy(ClassRepNodePolicies, Class)
           N == RouteRemoveNetworkActorToNodes(Nodes, r.Policy, Actor,
                                               StreamingLevelName, bFault)
       IN  /\ ClassRepNodePolicies' = r.Map
           /\ PolicyCall' = [Class |-> Class, Policy |-> r.Policy]
           /\ AlwaysRelevantNode' = N.AlwaysRelevantNode
           /\ AlwaysRelevantStreamingLevelActors' = N.AlwaysRelevantStreamingLevelActors
           /\ GridNode' = N.GridNode
           /\ fatalError' = N.fatalError
    /\ ActiveNetworkActors' = WithoutActor(ActiveNetworkActors, Actor)
    /\ LastAdd' = NoAdd
    /\ UNCHANGED <<CDO, ClassSettings, CharacterClass, BasePawnClass, LoadedClasses,
                   bInitialized, ExplicitlySetClasses, ClassInfoMap>>
    /\ LastGather' = NoGather
    /\ UNCHANGED <<notRouteVars, ConnectionNodes>>

\* The reset that empties the level lists and leaves the connections' nodes
\* as they are
ResetLeavesConnectionNodesMutant ==
    /\ ~fatalError
    /\ AlwaysRelevantStreamingLevelActors' = EmptyMap
    /\ LastAdd' = NoAdd
    /\ UNCHANGED <<ActiveNetworkActors, AlwaysRelevantNode, GridNode, fatalError,
                   ConnectionNodes>>
    /\ LastGather' = NoGather
    /\ UNCHANGED <<notRouteVars, policyVars>>

\* UGameplayReplicationGraph::ResetGameWorldState
ResetGameWorldState ==
    /\ ~fatalError
    /\ AlwaysRelevantStreamingLevelActors' = EmptyMap
    /\ ConnectionNodes' = [c \in Connections |-> ResetConnectionNode]
    /\ LastAdd' = NoAdd
    /\ UNCHANGED <<ActiveNetworkActors, AlwaysRelevantNode, GridNode, fatalError>>
    /\ LastGather' = NoGather
    /\ UNCHANGED <<notRouteVars, policyVars>>

RouteNext ==
    \/ InitGlobalActorClassSettings
    \/ \E Class \in Types : LazyInitClassInfo(Class)
    \/ \E Actor \in Actors, Class \in Types, Level \in LevelNames \cup {NAME_None} :
           CallRouteAdd(Actor, Class, Level)
    \/ \E Actor \in Actors, Class \in Types, Level \in LevelNames \cup {NAME_None},
          bFault \in BOOLEAN :
           CallRouteRemove(Actor, Class, Level, bFault)
    \/ ResetGameWorldState

\* ============================================================================
\* Part 4: UGameRepGraphNode_PlayerStateFrequencyLimiter
\* (GameplayReplicationGraph.cpp 907-950).

MaxPlayerStates == 11
MaxTargetActorsPerFrame == 3
DefaultTargetActorsPerFrame == 2

\* The worlds drawn from: up to MaxPlayerStates player states, each valid for
\* the gather or not
Worlds == UNION {[1..n -> BOOLEAN] : n \in 0..MaxPlayerStates}
TargetValues == 1..MaxTargetActorsPerFrame

\* The list with the list at its end replaced
SetLast(Lists, List) == [Lists EXCEPT ![Len(Lists)] = List]

RECURSIVE PrepareRollsOverLateMutant(_, _, _, _)
PrepareRollsOverLateMutant(World, Target, Lists, i) ==
    IF i > Len(World) THEN Lists
    ELSE IF World[i] = FALSE THEN PrepareRollsOverLateMutant(World, Target, Lists, i + 1)
    ELSE LET Rolled == IF Len(Lists[Len(Lists)]) > Target
                       THEN Append(Lists, <<>>) ELSE Lists
         IN  PrepareRollsOverLateMutant(World, Target,
                         SetLast(Rolled, Append(Rolled[Len(Rolled)], i)), i + 1)

\* The loop of PrepareForReplication from the i-th player state on, Lists
\* being the lists built so far and CurrentList the last of them
RECURSIVE PrepareLoop(_, _, _, _)
PrepareLoop(World, Target, Lists, i) ==
    IF i > Len(World) THEN Lists
    ELSE IF World[i] = FALSE THEN PrepareLoop(World, Target, Lists, i + 1)
    ELSE LET Rolled == IF Len(Lists[Len(Lists)]) >= Target
                       THEN Append(Lists, <<>>) ELSE Lists
         IN  PrepareLoop(World, Target,
                         SetLast(Rolled, Append(Rolled[Len(Rolled)], i)), i + 1)

LimiterConstructed ==
    /\ TargetActorsPerFrame = DefaultTargetActorsPerFrame
    /\ ReplicationActorLists = <<>>
    /\ ForceNetUpdateReplicationActorList = <<>>
    /\ bPrepared = FALSE

LimiterIdle == LimiterConstructed /\ PlayerStates = <<>>

LimiterInit == LimiterConstructed /\ PlayerStates \in Worlds

\* UGameRepGraphNode_PlayerStateFrequencyLimiter::PrepareForReplication
PrepareForReplication ==
    /\ ReplicationActorLists' =
           PrepareLoop(PlayerStates, TargetActorsPerFrame, <<<<>>>>, 1)
    /\ ForceNetUpdateReplicationActorList' = <<>>
    /\ bPrepared' = TRUE
    /\ UNCHANGED <<PlayerStates, TargetActorsPerFrame>>
    /\ UNCHANGED notLimiterVars

\* An assignment to the public field TargetActorsPerFrame
SetTargetActorsPerFrame(Target) ==
    /\ Target # TargetActorsPerFrame
    /\ TargetActorsPerFrame' = Target
    /\ bPrepared' = FALSE
    /\ UNCHANGED <<PlayerStates, ReplicationActorLists, ForceNetUpdateReplicationActorList>>
    /\ UNCHANGED notLimiterVars

LimiterNext ==
    \/ PrepareForReplication
    \/ \E Target \in TargetValues : SetTargetActorsPerFrame(Target)

\* ============================================================================
\* Part 5: the replication frame.  The driver passes the frame number, the
\* connection and its viewers to GatherActorListsForConnection of
\* UGameRepGraphNode_PlayerStateFrequencyLimiter (GameplayReplicationGraph.cpp
\* 912-922) and of UGameRepGraphNode_AlwaysRelevant_ForConnection (751-863).

MaxFrameNum == 8
MaxFramePlayerStates == 4
MaxTracked == 2

NoActor == <<"None", 0>>
PlayerStateActor(i) == <<"PlayerState", i>>

\* Params.ConnectionManager.ConnectionOrderNum
ConnectionOrderNum(Connection) ==
    (CHOOSE k \in 1..Len(ClientConnections) : ClientConnections[k] = Connection) - 1

LimiterGatherFirstListMutant(Lists, ForceList, FrameNum) ==
    <<Lists[1]>> \o (IF Len(ForceList) > 0 THEN <<ForceList>> ELSE <<>>)

LimiterGatherAllListsMutant(Lists, ForceList, FrameNum) ==
    Lists \o (IF Len(ForceList) > 0 THEN <<ForceList>> ELSE <<>>)

\* UGameRepGraphNode_PlayerStateFrequencyLimiter::GatherActorListsForConnection:
\* the lists added to Params.OutGatheredReplicationLists
LimiterGatherActorLists(Lists, ForceList, FrameNum) ==
    LET ListIdx == FrameNum % Len(Lists)
    IN  <<Lists[ListIdx + 1]>> \o (IF Len(ForceList) > 0 THEN <<ForceList>> ELSE <<>>)

ViewerListAlwaysPlayerStateMutant(Viewer, OrderNum, FrameNum) ==
    ConditionalAdd(
        ConditionalAdd(ConditionalAdd(<<>>, Viewer.InViewer), Viewer.ViewTarget),
        Viewer.PlayerState)

ViewerListIgnoresFrameMutant(Viewer, OrderNum, FrameNum) ==
    LET l1 == ConditionalAdd(ConditionalAdd(<<>>, Viewer.InViewer), Viewer.ViewTarget)
    IN  IF Viewer.bPlayerController /\ OrderNum % 2 = 0 /\ Viewer.PlayerState # NoActor
        THEN ConditionalAdd(l1, Viewer.PlayerState) ELSE l1

\* The viewer list of the per-connection node: the loop over Params.Viewers
\* for the one viewer of the connection.  UpdateCachedRelevantActor and
\* CleanupCachedRelevantActors change no list.
ViewerList(Viewer, OrderNum, FrameNum) ==
    LET l1 == ConditionalAdd(ConditionalAdd(<<>>, Viewer.InViewer), Viewer.ViewTarget)
        bReplicatePS == (OrderNum % 2) = (FrameNum % 2)
        l2 == IF Viewer.bPlayerController /\ bReplicatePS /\ Viewer.PlayerState # NoActor
              THEN ConditionalAdd(l1, Viewer.PlayerState) ELSE l1
    IN  IF Viewer.bPlayerController /\ Viewer.Pawn # NoActor /\ Viewer.Pawn # Viewer.ViewTarget
        THEN ConditionalAdd(l2, Viewer.Pawn) ELSE l2

\* The loop without the bAllDormant test: every non-empty list is added
RECURSIVE StreamingLoopIgnoresDormancyMutant(_, _, _, _)
StreamingLoopIgnoresDormancyMutant(S, Idx, LevelActors, Dormant) ==
    IF Idx < 1 THEN S
    ELSE LET StreamingLevel == S.Tracked[Idx] IN
         IF StreamingLevel \notin DOMAIN LevelActors
         THEN StreamingLoopIgnoresDormancyMutant(
                  [S EXCEPT !.Tracked = RemoveAtSwap(@, Idx)], Idx - 1, LevelActors, Dormant)
         ELSE IF Len(LevelActors[StreamingLevel]) > 0
              THEN StreamingLoopIgnoresDormancyMutant(
                       [S EXCEPT !.Out = Append(@, LevelActors[StreamingLevel])],
                       Idx - 1, LevelActors, Dormant)
              ELSE StreamingLoopIgnoresDormancyMutant(S, Idx - 1, LevelActors, Dormant)

\* The loop over AlwaysRelevantStreamingLevelsNeedingReplication, from index
\* Idx down: S.Tracked is the array, S.Out the lists added to the output
RECURSIVE StreamingLevelLoop(_, _, _, _)
StreamingLevelLoop(S, Idx, LevelActors, Dormant) ==
    IF Idx < 1 THEN S
    ELSE LET StreamingLevel == S.Tracked[Idx] IN
         IF StreamingLevel \notin DOMAIN LevelActors
         THEN StreamingLevelLoop([S EXCEPT !.Tracked = RemoveAtSwap(@, Idx)],
                                 Idx - 1, LevelActors, Dormant)
         ELSE LET RepList == LevelActors[StreamingLevel] IN
              IF Len(RepList) > 0
              THEN IF Range(RepList) \subseteq Dormant
                   THEN StreamingLevelLoop([S EXCEPT !.Tracked = RemoveAtSwap(@, Idx)],
                                           Idx - 1, LevelActors, Dormant)
                   ELSE StreamingLevelLoop([S EXCEPT !.Out = Append(@, RepList)],
                                           Idx - 1, LevelActors, Dormant)
              ELSE StreamingLevelLoop(S, Idx - 1, LevelActors, Dormant)

\* UGameRepGraphNode_AlwaysRelevant_ForConnection::GatherActorListsForConnection
\* for a node, its connection's viewer and order number, the frame number, the
\* graph's level lists and the actors dormant on the connection; GameplayDebugger
\* is nullptr
ConnectionGatherActorLists(Node, Viewer, OrderNum, FrameNum, LevelActors, Dormant) ==
    LET List == ViewerList(Viewer, OrderNum, FrameNum)
        S == StreamingLevelLoop(
                 [Tracked |-> Node.AlwaysRelevantStreamingLevelsNeedingReplication,
                  Out |-> <<List>>],
                 Len(Node.AlwaysRelevantStreamingLevelsNeedingReplication),
                 LevelActors, Dormant)
    IN  [Node |-> [ReplicationActorList |-> List,
                   AlwaysRelevantStreamingLevelsNeedingReplication |-> S.Tracked],
         bInitializedPlayerState |->
             Viewer.bPlayerController /\ ((OrderNum % 2) = (FrameNum % 2))
                 /\ Viewer.PlayerState # NoActor,
         Out |-> S.Out]

\* ------------------------------------------------------------ frame actions
\* The viewers drawn for the connection of order number k - 1: a player
\* controller viewing its own character, with the k-th player state of the
\* world if there is one; for the first connection also a player controller
\* without pawn and player state, one that views another's character, and a
\* viewer that is no player controller
ViewerProfiles(k) ==
    LET PC == <<"PlayerController", k>>
        Own == <<"Character", k>>
        PS == IF k <= Len(PlayerStates) THEN PlayerStateActor(k) ELSE NoActor
    IN  {[InViewer |-> PC, ViewTarget |-> Own, bPlayerController |-> TRUE,
          PlayerState |-> PS, Pawn |-> Own]}
        \cup (IF k # 1 THEN {} ELSE
               {[InViewer |-> PC, ViewTarget |-> PC, bPlayerController |-> TRUE,
                 PlayerState |-> NoActor, Pawn |-> NoActor],
                [InViewer |-> PC, ViewTarget |-> <<"Character", 2>>,
                 bPlayerController |-> TRUE, PlayerState |-> PS, Pawn |-> Own],
                [InViewer |-> <<"Viewer", k>>, ViewTarget |-> <<"Viewer", k>>,
                 bPlayerController |-> FALSE, PlayerState |-> NoActor, Pawn |-> NoActor]})

ConnectionIndex(Connection) ==
    CHOOSE k \in 1..3 : <<"c1", "c2", "c3">>[k] = Connection

\* The driver and the connections before the first frame, without what the
\* specification at hand draws
FrameConstructed ==
    /\ ReplicationFrameNum = 0
    /\ ForceNetUpdatePending = {}
    /\ bInitializedPlayerState = [c \in Connections |-> FALSE]
    /\ ClientVisibleLevelNames = [c \in Connections |-> {}]
    /\ bDormantOnConnection = [c \in Connections |-> {}]
    /\ GatherLog = <<>>
    /\ LastGather = NoGather

\* No connection
FrameIdle ==
    /\ FrameConstructed
    /\ ClientConnections = <<>>
    /\ Viewers = [c \in Connections |-> CHOOSE v \in ViewerProfiles(ConnectionIndex(c)) :
                                            v.ViewTarget = <<"Character", ConnectionIndex(c)>>]

\* Up to three connections with their viewers
FrameInit ==
    /\ FrameConstructed
    /\ ClientConnections \in {SubSeq(<<"c1", "c2", "c3">>, 1, n) : n \in 1..3}
    /\ Viewers \in {v \in [Connections -> UNION {ViewerProfiles(k) : k \in 1..3}] :
                       \A c \in Connections : v[c] \in ViewerProfiles(ConnectionIndex(c))}

\* The lists without the player states that an earlier list of the same
\* gather pass holds
OutGatheredUniqueMutant(LimiterOut, NodeOut) ==
    LET Limited == {PlayerStateActor(i) : i \in UNION {Range(LimiterOut[k]) : k \in 1..Len(LimiterOut)}}
    IN  [k \in 1..Len(LimiterOut) |->
            [j \in 1..Len(LimiterOut[k]) |-> PlayerStateActor(LimiterOut[k][j])]]
        \o [k \in 1..Len(NodeOut) |-> SelectSeq(NodeOut[k], LAMBDA x : x \notin Limited)]

\* Params.OutGatheredReplicationLists of one connection after the gather of
\* the limiter and of the connection's node: every list that
\* AddReplicationActorList was called with, in the order of the calls
OutGatheredReplicationLists(LimiterOut, NodeOut) ==
    [k \in 1..Len(LimiterOut) |->
        [j \in 1..Len(LimiterOut[k]) |-> PlayerStateActor(LimiterOut[k][j])]]
    \o NodeOut

\* The gather of the per-connection node of Connection in frame FrameNum
GatherOf(Connection, FrameNum) ==
    ConnectionGatherActorLists(ConnectionNodes[Connection], Viewers[Connection],
                               ConnectionOrderNum(Connection), FrameNum,
                               AlwaysRelevantStreamingLevelActors,
                               bDormantOnConnection[Connection])

\* A frame in which the driver does not call PrepareForReplication: the
\* limiter's gather divides by the number of the lists it was left with
ServerReplicateWithoutPrepareMutant ==
    /\ ReplicationFrameNum < MaxFrameNum
    /\ ~fatalError
    /\ ReplicationFrameNum' = ReplicationFrameNum + 1
    /\ fatalError' = (Len(ReplicationActorLists) = 0)
    /\ LastGather' = NoGather
    /\ UNCHANGED <<ForceNetUpdatePending, ClientConnections, Viewers, bInitializedPlayerState,
                   ClientVisibleLevelNames, bDormantOnConnection, GatherLog>>
    /\ UNCHANGED <<rewindVars, policyVars, limiterVars, ActiveNetworkActors, nodeVars,
                   ConnectionNodes, LastAdd>>

\* One frame of the driver: the next frame number, PrepareForReplication of the
\* limiter (bRequiresPrepareForReplicationCall), then for every connection the
\* gather of the limiter and of the connection's node
ServerReplicateActors ==
    /\ ReplicationFrameNum < MaxFrameNum
    /\ ~fatalError
    /\ LET FrameNum == ReplicationFrameNum + 1
           Lists == PrepareLoop(PlayerStates, TargetActorsPerFrame, <<<<>>>>, 1)
           Connected == Range(ClientConnections)
       IN  /\ ReplicationFrameNum' = FrameNum
           /\ ReplicationActorLists' = Lists
           /\ ForceNetUpdateReplicationActorList' = <<>>
           /\ bPrepared' = TRUE
           /\ ConnectionNodes' =
                  [c \in Connections |->
                      IF c \in Connected THEN GatherOf(c, FrameNum).Node
                      ELSE ConnectionNodes[c]]
           /\ bInitializedPlayerState' =
                  [c \in Connections |->
                      bInitializedPlayerState[c]
                          \/ (c \in Connected /\ GatherOf(c, FrameNum).bInitializedPlayerState)]
           /\ GatherLog' =
                  Append(GatherLog,
                         [FrameNum |-> FrameNum,
                          Forced |-> ForceNetUpdatePending,
                          Lists |-> Lists,
                          Limiter |-> LimiterGatherActorLists(Lists, <<>>, FrameNum),
                          Connection |-> [c \in Connected |-> GatherOf(c, FrameNum).Out]])
    /\ LastGather' = NoGather
    /\ UNCHANGED <<PlayerStates, TargetActorsPerFrame, ForceNetUpdatePending,
                   ClientConnections, Viewers, ClientVisibleLevelNames,
                   bDormantOnConnection>>
    /\ UNCHANGED <<rewindVars, policyVars, ActiveNetworkActors, nodeVars, fatalError, LastAdd>>

\* AActor::ForceNetUpdate for a player state
ForceNetUpdate(i) ==
    /\ i \in 1..Len(PlayerStates)
    /\ ForceNetUpdatePending = {}
    /\ ForceNetUpdatePending' = {i}
    /\ UNCHANGED <<ReplicationFrameNum, ClientConnections, Viewers, bInitializedPlayerState,
                   ClientVisibleLevelNames, bDormantOnConnection, GatherLog, LastGather>>
    /\ UNCHANGED <<rewindVars, policyVars, routeVars, limiterVars>>

\* The gather that also takes the list of a level it stops tracking out of
\* the graph's map
GatherRemovesLevelListMutant(Connection) ==
    /\ ~fatalError
    /\ Connection \in Range(ClientConnections)
    /\ LET g == GatherOf(Connection, ReplicationFrameNum)
           Kept == {Level \in DOMAIN AlwaysRelevantStreamingLevelActors :
                       Level \in Range(g.Node.AlwaysRelevantStreamingLevelsNeedingReplication)
                       \/ Level \notin Range(ConnectionNodes[Connection].AlwaysRelevantStreamingLevelsNeedingReplication)}
       IN  /\ ConnectionNodes' = [ConnectionNodes EXCEPT ![Connection] = g.Node]
           /\ bInitializedPlayerState' =
                  [bInitializedPlayerState EXCEPT ![Connection] = @ \/ g.bInitializedPlayerState]
           /\ AlwaysRelevantStreamingLevelActors' =
                  [Level \in Kept |-> AlwaysRelevantStreamingLevelActors[Level]]
           /\ LastGather' =
                  [Connection |-> Connection, FrameNum |-> ReplicationFrameNum,
                   Tracked |-> ConnectionNodes[Connection].AlwaysRelevantStreamingLevelsNeedingReplication,
                   Out |-> g.Out]
    /\ UNCHANGED <<ReplicationFrameNum, ForceNetUpdatePending, ClientConnections, Viewers,
                   ClientVisibleLevelNames, bDormantOnConnection, GatherLog>>
    /\ UNCHANGED <<rewindVars, policyVars, limiterVars, ActiveNetworkActors, AlwaysRelevantNode,
                   GridNode, fatalError, LastAdd>>

\* UGameRepGraphNode_AlwaysRelevant_ForConnection::GatherActorListsForConnection
\* for one connection, in the current frame
GatherActorListsForConnection(Connection) ==
    /\ ~fatalError
    /\ Connection \in Range(ClientConnections)
    /\ LET g == GatherOf(Connection, ReplicationFrameNum)
       IN  /\ ConnectionNodes' = [ConnectionNodes EXCEPT ![Connection] = g.Node]
           /\ bInitializedPlayerState' =
                  [bInitializedPlayerState EXCEPT ![Connection] = @ \/ g.bInitializedPlayerState]
           /\ LastGather' =
                  [Connection |-> Connection, FrameNum |-> ReplicationFrameNum,
                   Tracked |-> ConnectionNodes[Connection].AlwaysRelevantStreamingLevelsNeedingReplication,
                   Out |-> g.Out]
    /\ UNCHANGED <<ReplicationFrameNum, ForceNetUpdatePending, ClientConnections, Viewers,
                   ClientVisibleLevelNames, bDormantOnConnection, GatherLog>>
    /\ UNCHANGED <<rewindVars, policyVars, limiterVars, ActiveNetworkActors, nodeVars,
                   fatalError, LastAdd>>

\* TArray::Remove: the array without every element equal to Item
RemoveAll(Array, Item) == SelectSeq(Array, LAMBDA x : x # Item)

\* UGameRepGraphNode_AlwaysRelevant_ForConnection::OnClientLevelVisibilityAdd,
\* broadcast by the connection when its client reports the level visible
OnClientLevelVisibilityAdd(Connection, LevelName) ==
    /\ ~fatalError
    /\ Connection \in Range(ClientConnections)
    /\ Len(ConnectionNodes[Connection].AlwaysRelevantStreamingLevelsNeedingReplication)
           < MaxTracked
    /\ ConnectionNodes' =
           [ConnectionNodes EXCEPT
               ![Connection].AlwaysRelevantStreamingLevelsNeedingReplication =
                   Append(@, LevelName)]
    /\ ClientVisibleLevelNames' =
           [ClientVisibleLevelNames EXCEPT ![Connection] = @ \cup {LevelName}]
    /\ LastGather' = NoGather
    /\ UNCHANGED <<ReplicationFrameNum, ForceNetUpdatePending, ClientConnections, Viewers,
                   bInitializedPlayerState, bDormantOnConnection, GatherLog>>
    /\ UNCHANGED <<rewindVars, policyVars, limiterVars, ActiveNetworkActors, nodeVars,
                   fatalError, LastAdd>>

\* The handler with RemoveSingle in place of Remove: one instance is removed
VisibilityRemoveSingleMutant(Connection, LevelName) ==
    /\ ~fatalError
    /\ Connection \in Range(ClientConnections)
    /\ ConnectionNodes' =
           [ConnectionNodes EXCEPT
               ![Connection].AlwaysRelevantStreamingLevelsNeedingReplication =
                   IF LevelName \in Range(@) THEN RemoveAt(@, FirstIndex(@, LevelName))
                   ELSE @]
    /\ ClientVisibleLevelNames' =
           [ClientVisibleLevelNames EXCEPT ![Connection] = @ \ {LevelName}]
    /\ LastGather' = NoGather
    /\ UNCHANGED <<ReplicationFrameNum, ForceNetUpdatePending, ClientConnections, Viewers,
                   bInitializedPlayerState, bDormantOnConnection, GatherLog>>
    /\ UNCHANGED <<rewindVars, policyVars, limiterVars, ActiveNetworkActors, nodeVars,
                   fatalError, LastAdd>>

\* UGameRepGraphNode_AlwaysRelevant_ForConnection::OnClientLevelVisibilityRemove
OnClientLevelVisibilityRemove(Connection, LevelName) ==
    /\ ~fatalError
    /\ Connection \in Range(ClientConnections)
    /\ ConnectionNodes' =
           [ConnectionNodes EXCEPT
               ![Connection].AlwaysRelevantStreamingLevelsNeedingReplication =
                   RemoveAll(@, LevelName)]
    /\ ClientVisibleLevelNames' =
           [ClientVisibleLevelNames EXCEPT ![Connection] = @ \ {LevelName}]
    /\ LastGather' = NoGather
    /\ UNCHANGED <<ReplicationFrameNum, ForceNetUpdatePending, ClientConnections, Viewers,
                   bInitializedPlayerState, bDormantOnConnection, GatherLog>>
    /\ UNCHANGED <<rewindVars, policyVars, limiterVars, ActiveNetworkActors, nodeVars,
                   fatalError, LastAdd>>

\* The driver sets or clears bDormantOnConnection of an actor on a connection
SetDormantOnConnection(Connection, Actor, bDormant) ==
    /\ ~fatalError
    /\ Connection \in Range(ClientConnections)
    /\ (Actor \in bDormantOnConnection[Connection]) # bDormant
    /\ bDormantOnConnection' =
           [bDormantOnConnection EXCEPT
               ![Connection] = IF bDormant THEN @ \cup {Actor} ELSE @ \ {Actor}]
    /\ LastGather' = NoGather
    /\ UNCHANGED <<ReplicationFrameNum, ForceNetUpdatePending, ClientConnections, Viewers,
                   bInitializedPlayerState, ClientVisibleLevelNames, GatherLog>>
    /\ UNCHANGED <<rewindVars, policyVars, limiterVars, routeVars>>

\* Registrations of always relevant actors in streaming levels, the visibility
\* events of two connections, dormancy on the first of them, and gathers
StreamingNext ==
    \/ InitGlobalActorClassSettings
    \/ \E Level \in LevelNames : CallRouteAdd("a1", "A", Level)
    \/ CallRouteAdd("a2", "A", "L1")
    \/ \E Actor \in DOMAIN ActiveNetworkActors :
           CallRouteRemove(Actor, "A", ActiveNetworkActors[Actor].StreamingLevelName, TRUE)
    \/ \E Level \in LevelNames : OnClientLevelVisibilityAdd("c1", Level)
    \/ OnClientLevelVisibilityAdd("c2", "L1")
    \/ \E Connection \in {"c1", "c2"}, Level \in LevelNames :
           OnClientLevelVisibilityRemove(Connection, Level)
    \/ \E Actor \in Actors, bDormant \in BOOLEAN :
           SetDormantOnConnection("c1", Actor, bDormant)
    \/ \E Connection \in {"c1", "c2"} : GatherActorListsForConnection(Connection)

\* ------------------------------------------------------------------------
\* The limiter while player states join and leave between frames.  Player
\* state PersistentCandidate stays valid; the others become valid and
\* invalid.  The gather reads the frame number only modulo the number of
\* lists, which is at most MaxChurnPlayerStates, so ReplicationFrameNum holds
\* the frame number modulo FramePeriod, a common multiple of 1..Max-
\* ChurnPlayerStates.
MaxChurnPlayerStates == 3
PersistentCandidate == 2
RECURSIVE CommonMultiple(_)
CommonMultiple(n) ==
    IF n <= 1 THEN 1
    ELSE LET m == CommonMultiple(n - 1) IN (m * n) \div GCD(m, n)
FramePeriod == CommonMultiple(MaxChurnPlayerStates)

ChurnInit ==
    /\ PlayerStates \in {w \in [1..MaxChurnPlayerStates -> BOOLEAN] : w[PersistentCandidate]}
    /\ TargetActorsPerFrame \in TargetValues
    /\ ReplicationActorLists = <<>>
    /\ ForceNetUpdateReplicationActorList = <<>>
    /\ bPrepared = FALSE

\* One frame of the driver for the limiter: PrepareForReplication, then the
\* limiter's gather; GatherLog keeps the frame's entry only
LimiterFrame ==
    /\ LET FrameNum == (ReplicationFrameNum + 1) % FramePeriod
           Lists == PrepareLoop(PlayerStates, TargetActorsPerFrame, <<<<>>>>, 1)
       IN  /\ ReplicationFrameNum' = FrameNum
           /\ ReplicationActorLists' = Lists
           /\ ForceNetUpdateReplicationActorList' = <<>>
           /\ bPrepared' = TRUE
           /\ GatherLog' =
                  <<[FrameNum |-> FrameNum,
                     Forced |-> ForceNetUpdatePending,
                     Lists |-> Lists,
                     Limiter |-> LimiterGatherActorLists(Lists, <<>>, FrameNum),
                     Connection |-> <<>>]>>
    /\ UNCHANGED <<PlayerStates, TargetActorsPerFrame, ForceNetUpdatePending,
                   ClientConnections, Viewers, bInitializedPlayerState,
                   ClientVisibleLevelNames, bDormantOnConnection, LastGather>>
    /\ UNCHANGED <<rewindVars, policyVars, routeVars>>

\* A player state other than PersistentCandidate becomes valid for the gather
\* (its player joined) or stops being valid (its player left)
PlayerStateJoinsOrLeaves(i) ==
    /\ i \in 1..Len(PlayerStates)
    /\ i # PersistentCandidate
    /\ PlayerStates' = [PlayerStates EXCEPT ![i] = ~@]
    /\ UNCHANGED <<TargetActorsPerFrame, ReplicationActorLists,
                   ForceNetUpdateReplicationActorList, bPrepared>>
    /\ UNCHANGED notLimiterVars

ChurnNext ==
    \/ LimiterFrame
    \/ \E i \in 1..MaxChurnPlayerStates : PlayerStateJoinsOrLeaves(i)

\* Registrations under one level, visibility adds, gathers and resets of the
\* game world state
ResetNext ==
    \/ InitGlobalActorClassSettings
    \/ \E Actor \in Actors : CallRouteAdd(Actor, "A", "L1")
    \/ \E Connection \in {"c1", "c2"} : OnClientLevelVisibilityAdd(Connection, "L1")
    \/ \E Connection \in {"c1", "c2"} : GatherActorListsForConnection(Connection)
    \/ ResetGameWorldState

FramesNext ==
    \/ ServerReplicateActors
    \/ \E i \in 1..MaxFramePlayerStates : ForceNetUpdate(i)

\* ------------------------------------------------------------ specifications
vars == <<rewindVars, policyVars, routeVars, limiterVars, frameVars, LastGather>>

\* The state after construction, for each part with the other parts idle
InitRewind == RewindInit /\ PolicyIdle /\ RouteConstructed /\ LimiterIdle /\ FrameIdle
InitPolicy == PolicyInit /\ RewindIdle /\ RouteConstructed /\ LimiterIdle /\ FrameIdle
InitRoute == RoutePolicyInit /\ RewindIdle /\ RouteConstructed /\ LimiterIdle /\ FrameIdle
InitLimiter == LimiterInit /\ RewindIdle /\ PolicyIdle /\ RouteConstructed /\ FrameIdle
InitOverrides == OverridesPolicyInit /\ RewindIdle /\ RouteConstructed /\ LimiterIdle /\ FrameIdle
InitChurn == ChurnInit /\ RewindIdle /\ PolicyIdle /\ RouteConstructed /\ FrameIdle
InitStreaming ==
    /\ CDO = [c \in Types |->
                 IF c = "A"
                 THEN [ActorFlags EXCEPT !.bReplicates = TRUE, !.bAlwaysRelevant = TRUE]
                 ELSE ActorFlags]
    /\ ClassSettings = <<>>
    /\ CharacterClass = "B"
    /\ BasePawnClass = "B"
    /\ LoadedClasses = Types
    /\ PolicyConstructed
    /\ FrameConstructed
    /\ ClientConnections = <<"c1", "c2">>
    /\ Viewers = [c \in Connections |->
                     [InViewer |-> <<"PlayerController", ConnectionIndex(c)>>,
                      ViewTarget |-> <<"Character", ConnectionIndex(c)>>,
                      bPlayerController |-> TRUE,
                      PlayerState |-> NoActor,
                      Pawn |-> <<"Character", ConnectionIndex(c)>>]]
    /\ RewindIdle /\ RouteConstructed /\ LimiterIdle
InitFrames ==
    /\ PlayerStates \in UNION {[1..n -> BOOLEAN] : n \in 0..MaxFramePlayerStates}
    /\ TargetActorsPerFrame \in TargetValues
    /\ ReplicationActorLists = <<>>
    /\ ForceNetUpdateReplicationActorList = <<>>
    /\ bPrepared = FALSE
    /\ FrameInit
    /\ RewindIdle /\ PolicyIdle /\ RouteConstructed

SpecRewind == InitRewind /\ [][RewindNext]_vars

SpecPolicy == InitPolicy /\ [][PolicyNext]_vars

SpecRoute == InitRoute /\ [][RouteNext]_vars

SpecLimiter == InitLimiter /\ [][LimiterNext]_vars

SpecFrames == InitFrames /\ [][FramesNext]_vars

SpecStreaming == InitStreaming /\ [][StreamingNext]_vars
\* The limiter with joining and leaving player states; the driver runs a
\* frame again and again
SpecChurn == InitChurn /\ [][ChurnNext]_vars /\ WF_vars(LimiterFrame)
\* The level lists and the per-connection nodes with ResetGameWorldState
SpecReset == InitStreaming /\ [][ResetNext]_vars
\* The class policy with an unresolved override entry
SpecOverrides == InitOverrides /\ [][PolicyNext]_vars

\* =================================================================== claims
\* Positions of the history, and the pairs of neighbours that bracket a time
Indices == 1..Len(FrameHistory)
Brackets(t) ==
    {i \in 1..(Len(FrameHistory) - 1) :
        FrameHistory[i + 1].Time < t /\ t < FrameHistory[i].Time}

\* older + (younger - older) * f, by plain rational arithmetic
Lerp(older, younger, f) == VAdd(older, VScale(VSub(younger, older), f))
Fraction(older, younger, t) ==
    Clamp(Rat(t - older.Time, younger.Time - older.Time), RInt(0), RInt(1))

\* C1: after every record, a history of more than one snapshot spans at most
\* MaxRecordTime: head.Time - tail.Time <= MaxRecordTime.
C1_SpanWithinMaxRecordTime ==
    Len(FrameHistory) > 1 =>
        GetHead(FrameHistory).Time - GetTail(FrameHistory).Time <= MaxRecordTime

\* C2: once the first snapshot has been recorded the history is never empty,
\* and the eviction loop never empties the list it reads (MaxRecordTime >= 0).
C2_NeverEmptyAfterFirstRecord ==
    /\ ~nullDeref
    /\ (HasAuthority /\ now > 0) => Len(FrameHistory) >= 1

\* C2 witness: with MaxRecordTime = 0 the third record evicted down to one
\* snapshot before it pushed.
C2_Witness ==
    /\ HasAuthority
    /\ MaxRecordTime = 0
    /\ now >= 3
    /\ Len(FrameHistory) = 2

\* C3: a query returns the default package (not found) exactly when the
\* history is empty or the query time is strictly older than the tail's Time.
C3_NotFoundExactlyWhenTooOld ==
    queried =>
        ((ResultKind = "NotFound" /\ Result = DefaultFramePackage)
            <=> (FrameHistory = <<>> \/ QueryTime < GetTail(FrameHistory).Time))

\* C4: a query at or after the newest snapshot's Time returns the head
\* snapshot unmodified.
C4_NewestReturnedUnmodified ==
    (queried /\ FrameHistory # <<>> /\ QueryTime >= GetHead(FrameHistory).Time) =>
        Result = GetHead(FrameHistory)

\* C5: a query strictly between the oldest and the newest Time that hits no
\* stored Time returns the linear blend of the two neighbouring snapshots
\* that bracket it, with Time equal to the query time.
C5_InterpolatesBracketingPair ==
    (/\ queried
     /\ Len(FrameHistory) >= 2
     /\ GetTail(FrameHistory).Time < QueryTime
     /\ QueryTime < GetHead(FrameHistory).Time
     /\ \A i \in Indices : FrameHistory[i].Time # QueryTime)
    => \E i \in Brackets(QueryTime) :
         LET older == FrameHistory[i + 1]
             younger == FrameHistory[i]
             f == Fraction(older, younger, QueryTime)
         IN  /\ Result.Time = QueryTime
             /\ Result.HitBox.Min = Lerp(older.HitBox.Min, younger.HitBox.Min, f)
             /\ Result.HitBox.Max = Lerp(older.HitBox.Max, younger.HitBox.Max, f)

\* C6: a query whose time equals the Time of a retained snapshot returns that
\* snapshot unchanged.
C6_ExactHitReturnsStored ==
    queried =>
        \A i \in Indices :
            FrameHistory[i].Time = QueryTime => Result = FrameHistory[i]

\* C7: the teleported flag of an interpolated result is the logical OR of the
\* flags of the two snapshots that bracket the query time.
C7_TeleportedIsOrOfBracket ==
    (queried /\ ResultKind = "Interpolated") =>
        \A i \in Brackets(QueryTime) :
            Result.bTeleported =
                (FrameHistory[i].bTeleported \/ FrameHistory[i + 1].bTeleported)

\* C7 witness: an interpolated result between a teleported and a
\* non-teleported neighbour.
C7_Witness ==
    /\ queried
    /\ ResultKind = "Interpolated"
    /\ Result.bTeleported
    /\ \E i \in Brackets(QueryTime) :
           FrameHistory[i].bTeleported # FrameHistory[i + 1].bTeleported

\* C8: a teleported snapshot is never interpolated against its predecessor: a
\* query strictly between the two does not return a box blended from them.
C8_NoBlendAcrossTeleport ==
    queried =>
        \A i \in Brackets(QueryTime) :
            FrameHistory[i].bTeleported =>
                \/ ResultKind # "Interpolated"
                \/ Result.HitBox.Min \in
                       {FrameHistory[i].HitBox.Min, FrameHistory[i + 1].HitBox.Min}

\* C9: the history is strictly ordered by Time, newest at the head.
C9_StrictlyOrderedNewestFirst ==
    \A i \in 1..(Len(FrameHistory) - 1) :
        FrameHistory[i].Time > FrameHistory[i + 1].Time

\* C9 witness: a history of three snapshots.
C9_Witness == Len(FrameHistory) >= 3

\* C10: a tick that follows SetJustTeleported(true) records a snapshot whose
\* teleported flag is true, and leaves the pending flag cleared.
C10_TeleportMarksNextSnapshot ==
    [][(/\ HasAuthority
        /\ teleportRequested
        /\ \E dt \in 1..MaxDelta, p \in Positions : TickComponent(dt, p))
       => (GetHead(FrameHistory').bTeleported /\ ~bJustTeleported')]_vars

\* C11: GetRewoundHitBox(t), for t inside the retained history, returns the
\* HitBox of GetFramePackage(t) and not the owner's current box.
C11_RewoundHitBoxIsHistorical ==
    (/\ ResultKind = "HitBox"
     /\ FrameHistory # <<>>
     /\ GetTail(FrameHistory).Time <= QueryTime
     /\ QueryTime <= GetHead(FrameHistory).Time)
    => RewoundHitBox = GetFramePackage(FrameHistory, QueryTime).HitBox

\* The three relevance flags of a class equal those of another
SameRelevanceFlags(F, G) ==
    /\ F.bAlwaysRelevant = G.bAlwaysRelevant
    /\ F.bOnlyRelevantToOwner = G.bOnlyRelevantToOwner
    /\ F.bNetUseOwnerRelevancy = G.bNetUseOwnerRelevancy

\* The classes whose super class is an actor class
Subclasses == {T \in Types : GetSuperClass(T) \in Types}

\* C12: category resolution is idempotent and stable.  After initialisation,
\* no step (a resolution of any class, a lazy class-info initialisation)
\* changes or drops a category stored in ClassRepNodePolicies, none changes
\* the category GetMappingPolicy returns for a class, and the call that
\* follows a call of GetMappingPolicy(T) returns what that call returned.
C12_ResolutionIdempotentAndStable ==
    [][bInitialized =>
        /\ \A T \in DOMAIN ClassRepNodePolicies :
              /\ T \in DOMAIN ClassRepNodePolicies'
              /\ ClassRepNodePolicies'[T] = ClassRepNodePolicies[T]
        /\ \A T \in DOMAIN ClassInfoMap :
              GetMappingPolicy(ClassRepNodePolicies', T).Policy
                  = GetMappingPolicy(ClassRepNodePolicies, T).Policy
        /\ \A T \in Types :
              CallGetMappingPolicy(T) =>
                  GetMappingPolicy(ClassRepNodePolicies', T).Policy = PolicyCall'.Policy
      ]_vars

\* C12 witness: a call resolved a class that had no stored category, found
\* another category than its stored super class has, and stored it.
C12_Witness ==
    /\ PolicyCall.Class \in Subclasses
    /\ PolicyCall.Class \in DOMAIN ClassRepNodePolicies
    /\ PolicyCall.Class \notin ExplicitMappingClasses
    /\ ~CDO[PolicyCall.Class].bReplicates
    /\ GetSuperClass(PolicyCall.Class) \in DOMAIN ClassRepNodePolicies
    /\ ClassRepNodePolicies[GetSuperClass(PolicyCall.Class)] # PolicyCall.Policy

TakesSuperResult(T) ==
    /\ CDO[T].bReplicates
    /\ GetSuperClass(T) \in Types
    /\ CDO[GetSuperClass(T)].bReplicates
    /\ SameRelevanceFlags(CDO[GetSuperClass(T)], CDO[T])

\* The table of C14
TableMapping(F) ==
    CASE ~F.bReplicates -> "NotRouted"
      [] /\ F.bReplicates
         /\ ~F.bAlwaysRelevant /\ ~F.bOnlyRelevantToOwner /\ ~F.bNetUseOwnerRelevancy
             -> "Spatialize_Dynamic"
      [] F.bReplicates /\ F.bAlwaysRelevant /\ ~F.bOnlyRelevantToOwner
             -> "RelevantAllConnections"
      [] OTHER -> "NotRouted"

\* The class itself or a super class was given this category by the
\* override table
RECURSIVE OverriddenAs(_, _)
OverriddenAs(T, Mapping) ==
    IF T \notin Types THEN FALSE
    ELSE \/ (T \in ExplicitMappingClasses /\ ExplicitMapping(T) = Mapping)
         \/ OverriddenAs(GetSuperClass(T), Mapping)

\* C14: a class with no stored category that does not take its super class's
\* result resolves by the table (NotRouted if not replicated, Spatialize_Dynamic
\* if replicated without relevance flag, RelevantAllConnections if replicated,
\* always relevant and not only relevant to its owner, NotRouted otherwise); a
\* null class resolves to NotRouted; Spatialize_Static and Spatialize_Dormancy
\* come from an override entry only.
C14_DerivationTable ==
    /\ \A T \in Types :
          (T \notin DOMAIN ClassRepNodePolicies /\ ~TakesSuperResult(T))
          => GetClassNodeMapping(ClassRepNodePolicies, T) = TableMapping(CDO[T])
    /\ GetClassNodeMapping(ClassRepNodePolicies, NoClass) = "NotRouted"
    /\ \A T \in Types :
          LET Mapping == GetClassNodeMapping(ClassRepNodePolicies, T) IN
          Mapping \in {"Spatialize_Static", "Spatialize_Dormancy"}
              => OverriddenAs(T, Mapping)

\* C14 witness: after initialisation, a replicated class loaded later that is
\* always relevant and only relevant to its owner, unlike its super class,
\* whose category an override entry set to Spatialize_Dormancy.
C14_Witness ==
    /\ bInitialized
    /\ "B" \notin DOMAIN ClassRepNodePolicies
    /\ CDO["B"].bReplicates
    /\ CDO["B"].bAlwaysRelevant
    /\ CDO["B"].bOnlyRelevantToOwner
    /\ ~TakesSuperResult("B")
    /\ "A" \in DOMAIN ClassRepNodePolicies
    /\ ClassRepNodePolicies["A"] = "Spatialize_Dormancy"

C16_ExplicitClassInfoKept ==
    bInitialized =>
        /\ ClassInfoMap[BasePawnClass] = FastSharedClassRepInfo(BasePawnClass)
        /\ CharacterClass # BasePawnClass
              => ClassInfoMap[CharacterClass] = CharacterClassRepInfo(BasePawnClass)
        /\ \A T \in Types :
              (IsChildOf(T, CharacterClass) \/ IsChildOf(T, BasePawnClass)) =>
                  /\ T \in DOMAIN ClassRepNodePolicies =>
                        LET r == ConditionalInitClassReplicationInfo(
                                     ExplicitlySetClasses, ClassRepNodePolicies, T,
                                     DefaultClassInfo)
                        IN  ~r.bHandled /\ r.ClassInfo = DefaultClassInfo
                  /\ (T \in DOMAIN ClassInfoMap /\ T \notin {CharacterClass, BasePawnClass})
                        => ClassInfoMap[T] = ClassInfoMap[GetSuperClass(T)]

\* C16 witness: the explicitly set class is replicated and spatialized, so the
\* pass came across it, and its subclass had its class info lazily initialised.
C16_Witness ==
    /\ bInitialized
    /\ CharacterClass = "A"
    /\ BasePawnClass = "A"
    /\ CDO["A"].bReplicates
    /\ IsSpatialized(ClassRepNodePolicies["A"])
    /\ CDO["B"].bReplicates
    /\ "B" \in DOMAIN ClassInfoMap

\* The node memberships of an actor: the global always relevant list, the
\* list of a streaming level, a kind of the grid
LevelMembers(N, Level) ==
    IF Level \in DOMAIN N.AlwaysRelevantStreamingLevelActors
    THEN Range(N.AlwaysRelevantStreamingLevelActors[Level]) ELSE {}
GridKinds == {"Static", "Dynamic", "Dormancy"}
Memberships(N, Actor) ==
    {<<"AlwaysRelevantNode", NAME_None>> : x \in {y \in {1} : Actor \in Range(N.AlwaysRelevantNode)}}
    \cup {<<"AlwaysRelevantStreamingLevelActors", l>> :
             l \in {m \in LevelNames : Actor \in LevelMembers(N, m)}}
    \cup {<<"GridNode", k>> : k \in {g \in GridKinds : Actor \in N.GridNode[g]}}
\* The membership the add of a category and level name goes to, if any
Destination(Policy, StreamingLevelName) ==
    CASE Policy = "NotRouted" -> {}
      [] Policy = "RelevantAllConnections" ->
            IF StreamingLevelName = NAME_None
            THEN {<<"AlwaysRelevantNode", NAME_None>>}
            ELSE {<<"AlwaysRelevantStreamingLevelActors", StreamingLevelName>>}
      [] Policy = "Spatialize_Static" -> {<<"GridNode", "Static">>}
      [] Policy = "Spatialize_Dynamic" -> {<<"GridNode", "Dynamic">>}
      [] Policy = "Spatialize_Dormancy" -> {<<"GridNode", "Dormancy">>}
\* The members of every node
AllMembers(N) == [a \in Actors |-> Memberships(N, a)]
NodesAfter ==
    [AlwaysRelevantNode |-> AlwaysRelevantNode',
     AlwaysRelevantStreamingLevelActors |-> AlwaysRelevantStreamingLevelActors',
     GridNode |-> GridNode',
     fatalError |-> fatalError']

\* C17: registering an actor adds it to exactly the one membership its
\* resolved category and level name select (none for NotRouted, the level's
\* list for RelevantAllConnections with a level name, the global list without
\* one, the grid's static, dynamic or dormancy kind for the spatial
\* categories) and changes the membership of no other actor; every registered
\* actor is in at most one membership.
C17_AddStep ==
    \A a \in Actors :
        (a \notin DOMAIN ActiveNetworkActors /\ a \in DOMAIN ActiveNetworkActors') =>
            LET rec == ActiveNetworkActors'[a]
            IN  /\ rec.Policy = GetClassNodeMapping(ClassRepNodePolicies', rec.Class)
                /\ Memberships(NodesAfter, a) =
                       Memberships(Nodes, a) \cup Destination(rec.Policy, rec.StreamingLevelName)
                /\ \A b \in Actors \ {a} :
                       Memberships(NodesAfter, b) = Memberships(Nodes, b)
                /\ ~fatalError'
C17_AtMostOneMembership ==
    \A a \in DOMAIN ActiveNetworkActors : Cardinality(Memberships(Nodes, a)) <= 1
C17_AddDispatchesToOneDestination ==
    [](C17_AtMostOneMembership) /\ [][C17_AddStep]_vars
C17_Witness ==
    \E a, b \in DOMAIN ActiveNetworkActors :
        /\ a # b
        /\ LastAdd.Actor = b
        /\ \E l \in LevelNames :
              Memberships(Nodes, a) = {<<"AlwaysRelevantStreamingLevelActors", l>>}
        /\ \E k \in GridKinds : Memberships(Nodes, b) = {<<"GridNode", k>>}
        /\ \E c \in DOMAIN ActiveNetworkActors :
              ActiveNetworkActors[c].Policy = "RelevantAllConnections"

\* C18: unregistering a registered actor resolves the category it was
\* registered under and leaves the actor in no membership; when the unregister
\* follows the register of the same actor directly, no fatal error occurs and
\* the members of the global list, of every level list and of the grid are
\* what they were before the register.
C18_RemoveStep ==
    \A a \in Actors :
        (a \in DOMAIN ActiveNetworkActors /\ a \notin DOMAIN ActiveNetworkActors') =>
            LET rec == ActiveNetworkActors[a]
            IN  /\ PolicyCall' = [Class |-> rec.Class, Policy |-> rec.Policy]
                /\ Memberships(NodesAfter, a) = {}
                /\ LastAdd.Actor = a =>
                      /\ AllMembers(NodesAfter) = AllMembers(LastAdd.Nodes)
                      /\ ~fatalError'
C18_RegisterThenUnregisterRestores == [][C18_RemoveStep]_vars
C18_Witness ==
    /\ ~fatalError
    /\ LastAdd = NoAdd
    /\ PolicyCall.Policy = "RelevantAllConnections"
    /\ \E a \in DOMAIN ActiveNetworkActors : Memberships(Nodes, a) # {}
    /\ \E l \in DOMAIN AlwaysRelevantStreamingLevelActors :
          AlwaysRelevantStreamingLevelActors[l] = <<>>

\* The list the category and the level name select holds the actor
PresentInSelectedList(N, Policy, Actor, StreamingLevelName) ==
    Destination(Policy, StreamingLevelName) \subseteq Memberships(N, Actor)
       /\ Destination(Policy, StreamingLevelName) # {}

\* C19: whenever RouteRemoveNetworkActorToNodes can be called for an actor
\* that is not in the list its category and level name select (a level name
\* without a list included), the call changes no membership and raises no
\* fatal error.
C19_RemoveOfAbsentActorIsNoOp ==
    (bInitialized /\ ~fatalError) =>
        \A Actor \in Actors, Class \in DOMAIN ClassInfoMap,
           StreamingLevelName \in LevelNames \cup {NAME_None}, bFault \in BOOLEAN :
            LET Policy == GetMappingPolicy(ClassRepNodePolicies, Class).Policy
                N == RouteRemoveNetworkActorToNodes(Nodes, Policy, Actor,
                                                    StreamingLevelName, bFault)
            IN  (/\ Actor \in DOMAIN ActiveNetworkActors =>
                       /\ Class = ActiveNetworkActors[Actor].Class
                       /\ StreamingLevelName = ActiveNetworkActors[Actor].StreamingLevelName
                 /\ ~PresentInSelectedList(Nodes, Policy, Actor, StreamingLevelName))
                => (AllMembers(N) = AllMembers(Nodes) /\ ~N.fatalError)

\* The valid candidates of the world and the entities of a bucket
ValidCandidates == {i \in 1..Len(PlayerStates) : PlayerStates[i]}
BucketSizes == [b \in 1..Len(ReplicationActorLists) |-> Len(ReplicationActorLists[b])]
CeilDiv(n, d) == (n + d - 1) \div d
Max(a, b) == IF a >= b THEN a ELSE b

\* C20: after PrepareForReplication with N valid candidates and
\* TargetActorsPerFrame = T >= 1 every valid candidate is in exactly one
\* bucket, at one position, and no other entity is in a bucket; there are
\* max(1, ceil(N/T)) buckets, each of at most T entities, all but the last of
\* exactly T.
C20_BucketsPartitionCandidates ==
    (bPrepared /\ TargetActorsPerFrame >= 1) =>
        LET N == Cardinality(ValidCandidates)
            T == TargetActorsPerFrame
            Lists == ReplicationActorLists
        IN  /\ \A i \in ValidCandidates :
                  Cardinality({<<b, k>> \in (1..Len(Lists)) \X (1..T) :
                                  k <= Len(Lists[b]) /\ Lists[b][k] = i}) = 1
            /\ \A b \in 1..Len(Lists) : Range(Lists[b]) \subseteq ValidCandidates
            /\ Len(Lists) = Max(1, CeilDiv(N, T))
            /\ \A b \in 1..Len(Lists) : Len(Lists[b]) <= T
            /\ \A b \in 1..(Len(Lists) - 1) : Len(Lists[b]) = T
C20_Witness ==
    /\ bPrepared
    /\ TargetActorsPerFrame = 3
    /\ Cardinality(ValidCandidates) = 10
    /\ Len(PlayerStates) = 11
    /\ BucketSizes = <<3, 3, 3, 1>>

\* The entities of the lists of a gather output, in order, and as a set
RECURSIVE Flatten(_)
Flatten(ListOfLists) ==
    IF ListOfLists = <<>> THEN <<>>
    ELSE Head(ListOfLists) \o Flatten(Tail(ListOfLists))
Entities(ListOfLists) == Range(Flatten(ListOfLists))
NoDuplicates(List) ==
    \A i, j \in 1..Len(List) : List[i] = List[j] => i = j

\* C21: over bucketCount consecutive frames (the world's player states being
\* the same in each) every valid candidate is in the limiter's gather output of
\* exactly one frame, and no entity is twice in the limiter's output of one
\* frame.
C21_EveryCandidateOncePerCycle ==
    /\ \A s \in 1..Len(GatherLog) :
          LET bucketCount == Len(GatherLog[s].Lists)
          IN  s + bucketCount - 1 <= Len(GatherLog) =>
                 \A i \in ValidCandidates :
                     Cardinality({k \in s..(s + bucketCount - 1) :
                                     i \in Entities(GatherLog[k].Limiter)}) = 1
    /\ \A k \in 1..Len(GatherLog) : NoDuplicates(Flatten(GatherLog[k].Limiter))
C21_Witness ==
    /\ Len(GatherLog) >= 5
    /\ Len(GatherLog[1].Lists) = 3
    /\ Cardinality(ValidCandidates) < Len(PlayerStates)
    /\ TargetActorsPerFrame = 1

\* C22: in every frame in which a valid player state has a pending
\* ForceNetUpdate, the limiter's gather output holds that player state.
C22_ForcedUpdateAlwaysGathered ==
    \A k \in 1..Len(GatherLog) :
        \A i \in GatherLog[k].Forced \cap ValidCandidates :
            i \in Entities(GatherLog[k].Limiter)

\* C23: the limiter's gather output of frame n is the bucket of index
\* n mod bucketCount followed by the force list: its entities are those of
\* that bucket and of the force list, and they are at most
\* TargetActorsPerFrame plus the forced ones.
C23_GatherIsSelectedBucketPlusForceList ==
    \A k \in 1..Len(GatherLog) :
        LET e == GatherLog[k]
            Bucket == e.Lists[(e.FrameNum % Len(e.Lists)) + 1]
            ForceList == ForceNetUpdateReplicationActorList
        IN  /\ Flatten(e.Limiter) = Bucket \o ForceList
            /\ Len(Flatten(e.Limiter)) <= TargetActorsPerFrame + Len(ForceList)
C23_Witness ==
    \E k \in 1..Len(GatherLog) :
        LET e == GatherLog[k]
        IN  /\ Len(e.Lists) = 2
            /\ e.FrameNum % 2 = 1
            /\ Len(e.Lists[1]) = 2 /\ Len(e.Lists[2]) = 2
            /\ Entities(e.Limiter) = Range(e.Lists[2])

\* The connections whose viewer is a player controller with a player state
HasOwnPlayerState(c) ==
    Viewers[c].bPlayerController /\ Viewers[c].PlayerState # NoActor
ReceivesOwnPlayerState(e, c) ==
    Viewers[c].PlayerState \in Entities(e.Connection[c])

\* C24 as stated: in frame n the per-connection node adds the player state of
\* a player-controlled viewer exactly when (ConnectionOrderNum + n) mod 2 = 0,
\* and in every frame exactly half of all connections (each with such a
\* viewer) receive their own player state.
C24_HalfOfAllConnectionsEachFrame ==
    \A k \in 1..Len(GatherLog) :
        LET e == GatherLog[k]
        IN  /\ \A c \in DOMAIN e.Connection :
                  HasOwnPlayerState(c) =>
                      (ReceivesOwnPlayerState(e, c)
                          <=> (ConnectionOrderNum(c) + e.FrameNum) % 2 = 0)
            /\ (\A c \in DOMAIN e.Connection : HasOwnPlayerState(c)) =>
                  2 * Cardinality({c \in DOMAIN e.Connection :
                                      ReceivesOwnPlayerState(e, c)})
                      = Cardinality(DOMAIN e.Connection)
\* C24 amended: in frame n the per-connection node adds the player state of a
\* player-controlled viewer exactly when (ConnectionOrderNum + n) mod 2 = 0;
\* the connections that receive their own player state in a frame are those
\* with such a viewer whose order number has the parity of the frame number.
C24_PlayerStateOnMatchingParity ==
    \A k \in 1..Len(GatherLog) :
        LET e == GatherLog[k]
        IN  /\ \A c \in DOMAIN e.Connection :
                  HasOwnPlayerState(c) =>
                      (ReceivesOwnPlayerState(e, c)
                          <=> (ConnectionOrderNum(c) + e.FrameNum) % 2 = 0)
            /\ {c \in DOMAIN e.Connection :
                   HasOwnPlayerState(c) /\ ReceivesOwnPlayerState(e, c)}
                 = {c \in DOMAIN e.Connection :
                       HasOwnPlayerState(c)
                           /\ ConnectionOrderNum(c) % 2 = e.FrameNum % 2}
C24_Witness ==
    /\ Len(ClientConnections) = 3
    /\ \A c \in Connections : HasOwnPlayerState(c)
    /\ Len(GatherLog) >= 2
    /\ {c \in Connections : ReceivesOwnPlayerState(GatherLog[1], c)} = {"c2"}
    /\ {c \in Connections : ReceivesOwnPlayerState(GatherLog[2], c)} = {"c1", "c3"}

\* C25: for every connection whose viewer is a player controller with a
\* player state, the per-connection node's gather output holds that player
\* state in at least one of any two consecutive frames.
C25_OwnPlayerStateEverySecondFrame ==
    \A k \in 1..(Len(GatherLog) - 1) :
        \A c \in DOMAIN GatherLog[k].Connection :
            HasOwnPlayerState(c) =>
                \/ ReceivesOwnPlayerState(GatherLog[k], c)
                \/ ReceivesOwnPlayerState(GatherLog[k + 1], c)
C25_Witness ==
    /\ Len(GatherLog) >= 3
    /\ Len(ClientConnections) = 2
    /\ HasOwnPlayerState("c1") /\ HasOwnPlayerState("c2")
    /\ ~ReceivesOwnPlayerState(GatherLog[1], "c1")
    /\ ReceivesOwnPlayerState(GatherLog[2], "c1")
    /\ Len(GatherLog[1].Lists) >= 2

\* The levels a connection's node tracks, the members of a level's list, and
\* whether the last gather contributed the list of a level
Tracked(c) == Range(ConnectionNodes[c].AlwaysRelevantStreamingLevelsNeedingReplication)
Members(Level) == LevelMembers(Nodes, Level)
Contributed(Level) ==
    /\ Members(Level) # {}
    /\ \E k \in 2..Len(LastGather.Out) :
          LastGather.Out[k] = AlwaysRelevantStreamingLevelActors[Level]
SomeMemberAwake(c, Level) == Members(Level) \ bDormantOnConnection[c] # {}

\* C26: a gather for a connection contributes the list of every level that is
\* visible to the connection and has a member that is not dormant on it.
C26_VisibleAwakeLevelContributed ==
    \A c \in Connections :
        LastGather.Connection = c =>
            \A Level \in ClientVisibleLevelNames[c] :
                SomeMemberAwake(c, Level) => Contributed(Level)

\* C27: a gather for a connection contributes the list of a level only if the
\* level is visible to the connection and a member of the list is not dormant
\* on it; a tracked level whose members are all dormant on the connection is
\* not contributed and is no longer tracked after the gather.
C27_ContributedOnlyIfVisibleAndAwake ==
    \A c \in Connections :
        LastGather.Connection = c =>
            /\ \A Level \in LevelNames :
                  Contributed(Level) =>
                      Level \in ClientVisibleLevelNames[c] /\ SomeMemberAwake(c, Level)
            /\ \A Level \in Range(LastGather.Tracked) :
                  (Members(Level) # {} /\ ~SomeMemberAwake(c, Level)) =>
                      ~Contributed(Level) /\ Level \notin Tracked(c)
C27_Witness ==
    /\ LastGather.Connection = "c1"
    /\ LastGather.Tracked = <<"L2", "L1">>
    /\ Members("L1") = {"a1", "a2"}
    /\ bDormantOnConnection["c1"] = {"a1", "a2"}
    /\ ~Contributed("L1")
    /\ Tracked("c1") = {}

\* C28: a gather for a connection stops tracking every level it tracked whose
\* list has no members (no list, or an empty list).
C28_MemberlessLevelUntracked ==
    \A c \in Connections :
        LastGather.Connection = c =>
            \A Level \in Range(LastGather.Tracked) :
                Members(Level) = {} => Level \notin Tracked(c)

\* C29: every level a connection's node tracks is visible to the connection
\* (a visibility add was received with no later visibility remove), a gather
\* contributes only lists of levels it tracked, a visibility add makes the
\* level tracked, a visibility remove makes it untracked, and an event or a
\* gather for one connection leaves the other connections' nodes alone.
C29_TrackedIsVisible ==
    /\ \A c \in Connections : Tracked(c) \subseteq ClientVisibleLevelNames[c]
    /\ \A Level \in LevelNames :
          Contributed(Level) => Level \in Range(LastGather.Tracked)
C29_EventStep ==
    \A c \in Connections :
        (ConnectionNodes'[c] # ConnectionNodes[c]
            \/ ClientVisibleLevelNames'[c] # ClientVisibleLevelNames[c]) =>
            /\ \A d \in Connections \ {c} :
                  /\ ConnectionNodes'[d] = ConnectionNodes[d]
                  /\ ClientVisibleLevelNames'[d] = ClientVisibleLevelNames[d]
            /\ \A Level \in LevelNames :
                  /\ Level \in ClientVisibleLevelNames'[c] \ ClientVisibleLevelNames[c]
                     => Level \in Range(ConnectionNodes'[c].AlwaysRelevantStreamingLevelsNeedingReplication)
                  /\ Level \in ClientVisibleLevelNames[c] \ ClientVisibleLevelNames'[c]
                     => Level \notin Range(ConnectionNodes'[c].AlwaysRelevantStreamingLevelsNeedingReplication)
C29_VisibilityEventsMaintainTracked ==
    [](C29_TrackedIsVisible) /\ [][C29_EventStep]_vars
C29_Witness ==
    /\ LastGather.Connection = "c1"
    /\ "L1" \notin ClientVisibleLevelNames["c1"]
    /\ "L2" \in Tracked("c1")
    /\ SomeMemberAwake("c1", "L1")
    /\ ~Contributed("L1")
    /\ Tracked("c2") = {"L1"}

\* C30: no entity is twice in the output of one gather of the per-connection
\* node: not twice in its viewer list and not twice in the level lists it
\* contributes (a viewer entity is never a member of a level list).
C30_NoEntityTwiceInOneGather ==
    LastGather.Connection # "None" =>
        /\ NoDuplicates(Head(LastGather.Out))
        /\ NoDuplicates(Flatten(Tail(LastGather.Out)))

\* The lists gathered for connection c in the frame of log entry e, and the
\* number of times an entity is in them
MergedLists(e, c) == OutGatheredReplicationLists(e.Limiter, e.Connection[c])
Occurrences(List, Entity) == Cardinality({i \in 1..Len(List) : List[i] = Entity})

\* C31: in a frame where the per-connection node adds the connection's own
\* player state and the limiter's gather output holds that player state too,
\* the player state is twice in the lists gathered for the connection.
C31_NoDeduplicationAcrossNodes ==
    \A k \in 1..Len(GatherLog) :
        LET e == GatherLog[k]
        IN  \A c \in DOMAIN e.Connection :
                (/\ HasOwnPlayerState(c)
                 /\ ReceivesOwnPlayerState(e, c)
                 /\ Viewers[c].PlayerState
                        \in {PlayerStateActor(i) : i \in Entities(e.Limiter)})
                => Occurrences(Flatten(MergedLists(e, c)), Viewers[c].PlayerState) = 2
C31_Witness ==
    \E k \in 1..Len(GatherLog) :
        LET e == GatherLog[k]
        IN  /\ "c2" \in DOMAIN e.Connection
            /\ HasOwnPlayerState("c2")
            /\ ReceivesOwnPlayerState(e, "c2")
            /\ Len(e.Lists) >= 2
            /\ 2 \in Entities(e.Limiter)
            /\ Occurrences(Flatten(MergedLists(e, "c2")), PlayerStateActor(2)) = 2

\* C32: a gather of the per-connection node of connection c leaves the class
\* policies and class infos, the always relevant node, the level lists, the
\* grid and the limiter's lists unchanged, leaves the node of every other
\* connection unchanged, and leaves unchanged what a gather of every other
\* connection returns in the same frame.
C32_GatherStep ==
    \A c \in Connections :
        (LastGather' # LastGather /\ LastGather'.Connection = c) =>
            /\ policyVars' = policyVars
            /\ nodeVars' = nodeVars
            /\ limiterVars' = limiterVars
            /\ ActiveNetworkActors' = ActiveNetworkActors
            /\ \A d \in Range(ClientConnections) \ {c} :
                  /\ ConnectionNodes'[d] = ConnectionNodes[d]
                  /\ GatherOf(d, ReplicationFrameNum)' = GatherOf(d, ReplicationFrameNum)
C32_GatherLeavesSharedStateUnchanged == [][C32_GatherStep]_vars
C32_Witness ==
    /\ LastGather.Connection = "c1"
    /\ LastGather.Tracked = <<"L1">>
    /\ Tracked("c1") = {}
    /\ Tracked("c2") = {"L1"}
    /\ Members("L1") = {"a1", "a2"}
    /\ SomeMemberAwake("c2", "L1")

\* The override entries that name a class that cannot be found, the classes
\* that entries name, the category of the last entry that names a class, and
\* whether an entry names the class or one of its super classes
UnresolvedEntries == {i \in 1..Len(ClassSettings) : ClassSettings[i].ActorClass \notin Types}
NamedClasses == {ClassSettings[i].ActorClass : i \in 1..Len(ClassSettings)} \cap Types
LastEntryMapping(T) ==
    LET Last == CHOOSE i \in 1..Len(ClassSettings) :
                    /\ ClassSettings[i].ActorClass = T
                    /\ \A j \in 1..Len(ClassSettings) :
                          ClassSettings[j].ActorClass = T => j <= i
    IN  ClassSettings[Last].ClassNodeMapping
RECURSIVE NamedOnChain(_)
NamedOnChain(T) ==
    IF T \notin Types THEN FALSE ELSE T \in NamedClasses \/ NamedOnChain(GetSuperClass(T))

\* C33: after initialisation with an override table that has an entry whose
\* class cannot be found, no fatal error occurred, no category is stored for
\* a class that does not exist, every class another entry names has the
\* category of the last entry that names it, and every class that no entry
\* names (itself or a super class) has the category derived from its flags.
C33_UnresolvedEntrySkipped ==
    (bInitialized /\ UnresolvedEntries # {}) =>
        /\ ~fatalError
        /\ DOMAIN ClassRepNodePolicies \subseteq Types
        /\ \A T \in NamedClasses :
              /\ T \in DOMAIN ClassRepNodePolicies
              /\ ClassRepNodePolicies[T] = LastEntryMapping(T)
        /\ \A T \in DOMAIN ClassRepNodePolicies :
              ~NamedOnChain(T) => ClassRepNodePolicies[T] = GetClassNodeMapping(EmptyMap, T)
        /\ \A T \in Types :
              ~NamedOnChain(T) =>
                  GetClassNodeMapping(ClassRepNodePolicies, T) = GetClassNodeMapping(EmptyMap, T)
C33_Witness ==
    /\ bInitialized
    /\ ClassSettings[1].ActorClass = UnresolvedClassName
    /\ ClassSettings[1].ClassNodeMapping = "Spatialize_Dormancy"
    /\ ClassSettings[2].ActorClass = "B"
    /\ ClassRepNodePolicies["B"] = "Spatialize_Static"
    /\ CDO["A"].bReplicates /\ CDO["A"].bAlwaysRelevant /\ ~CDO["A"].bOnlyRelevantToOwner
    /\ "A" \in DOMAIN ClassRepNodePolicies
    /\ ClassRepNodePolicies["A"] = "RelevantAllConnections"

\* C35: no frame divides by zero lists; once a frame has run the limiter is
\* prepared and holds at least one list; in every frame the lists the
\* limiter's gather reads are those PrepareForReplication built from the
\* world's player states, at least one also without a valid candidate, and
\* the index frame number mod list count is the index of one of them, whose
\* list the gather returns.
C35_PreparedBeforeGather ==
    /\ ~fatalError
    /\ ReplicationFrameNum >= 1 => (bPrepared /\ Len(ReplicationActorLists) >= 1)
    /\ \A k \in 1..Len(GatherLog) :
          LET e == GatherLog[k]
          IN  /\ Len(e.Lists) >= 1
              /\ e.Lists = PrepareLoop(PlayerStates, TargetActorsPerFrame, <<<<>>>>, 1)
              /\ (e.FrameNum % Len(e.Lists)) + 1 \in DOMAIN e.Lists
              /\ Len(e.Limiter) >= 1
              /\ e.Limiter[1] = e.Lists[(e.FrameNum % Len(e.Lists)) + 1]
C35_Witness ==
    /\ Len(PlayerStates) >= 2
    /\ ValidCandidates = {}
    /\ Len(GatherLog) >= 2
    /\ GatherLog[2].Lists = <<<<>>>>
    /\ GatherLog[2].Limiter = <<<<>>>>

\* C36: a player state that stays valid for the gather is eventually in the
\* limiter's gather output, also while other player states join and leave
\* between the frames.
C36_PersistentCandidateEventuallyGathered ==
    <>(GatherLog # <<>> /\ PersistentCandidate \in Entities(GatherLog[1].Limiter))

\* C37: ResetGameWorldState leaves the graph without level lists and the node
\* of every connection with an empty gathered list and no tracked level; a
\* gather contributes the list of a level only if the node tracked the level
\* and the list has a member; a node comes to track a level only by a
\* visibility add for its connection, and a level's list gains a member only
\* by a registration under the level.
C37_ResetStep ==
    ResetGameWorldState =>
        /\ DOMAIN AlwaysRelevantStreamingLevelActors' = {}
        /\ \A c \in Connections :
              /\ ConnectionNodes'[c].ReplicationActorList = <<>>
              /\ ConnectionNodes'[c].AlwaysRelevantStreamingLevelsNeedingReplication = <<>>
C37_ContributedWasTrackedWithMembers ==
    \A Level \in LevelNames :
        Contributed(Level) => (Level \in Range(LastGather.Tracked) /\ Members(Level) # {})
C37_GrowthStep ==
    /\ \A c \in Connections, Level \in LevelNames :
          (Level \in Range(ConnectionNodes'[c].AlwaysRelevantStreamingLevelsNeedingReplication)
              /\ Level \notin Tracked(c))
          => OnClientLevelVisibilityAdd(c, Level)
    /\ \A Level \in LevelNames :
          ~(LevelMembers(NodesAfter, Level) \subseteq Members(Level))
          => \E Actor \in Actors, Class \in Types : CallRouteAdd(Actor, Class, Level)
C37_NothingContributedAfterReset ==
    /\ [][C37_ResetStep]_vars
    /\ []C37_ContributedWasTrackedWithMembers
    /\ [][C37_GrowthStep]_vars
C37_Witness ==
    /\ "a1" \in DOMAIN ActiveNetworkActors
    /\ "a1" \notin Members("L1")
    /\ Members("L1") = {"a2"}
    /\ LastGather.Connection = "c1"
    /\ LastGather.Tracked = <<"L1">>
    /\ Contributed("L1")
    /\ Tracked("c2") = {}
    /\ "L1" \in ClientVisibleLevelNames["c2"]

\* C38: a GetFramePackage query leaves the history as it was (the same
\* snapshots in the same order), and a query that follows a query for the
\* same time on that history returns the same result.
C38_QueryStep ==
    queried' =>
        /\ FrameHistory' = FrameHistory
        /\ (queried /\ QueryTime' = QueryTime) =>
               /\ Result' = Result
               /\ ResultKind' = ResultKind

C39_Recording ==
    \E dt \in 1..MaxDelta, p \in Positions :
        \/ TickComponent(dt, p)
        \/ \E b \in BOOLEAN : CallUpdateFramePackage(dt, p, b)

C39_Tick == \E dt \in 1..MaxDelta, p \in Positions : TickComponent(dt, p)

C39_OneNewSnapshotAtHead ==
    /\ FrameHistory' # <<>>
    /\ GetHead(FrameHistory').Time = now'
    /\ Len(FrameHistory') <= Len(FrameHistory) + 1
    /\ Tail(FrameHistory') = SubSeq(FrameHistory, 1, Len(FrameHistory') - 1)
    /\ \A k \in 2..Len(FrameHistory') : FrameHistory'[k].Time < now'

C39_Step ==
    /\ (~HasAuthority /\ C39_Recording) => FrameHistory' = FrameHistory
    /\ (HasAuthority /\ C39_Tick) => C39_OneNewSnapshotAtHead

C39_HistoryChangesOnlyWithAuthority ==
    /\ [](~HasAuthority => FrameHistory = <<>>)
    /\ [][C39_Step]_vars

C39_Witness ==
    /\ HasAuthority
    /\ Len(FrameHistory) >= 2
    /\ GetHead(FrameHistory).Time = now
    /\ GetTail(FrameHistory).Time > 1

\* C40: the package a query returns as not found has IsValid() false, and
\* the package a query returns for a time between the Time of the oldest and
\* the Time of the newest retained snapshot has IsValid() true.
C40_InsideRetainedHistory ==
    /\ FrameHistory # <<>>
    /\ GetTail(FrameHistory).Time <= QueryTime
    /\ QueryTime <= GetHead(FrameHistory).Time

C40_IsValidTellsFoundFromNotFound ==
    queried =>
        /\ ResultKind = "NotFound" => ~IsValid(Result)
        /\ C40_InsideRetainedHistory => IsValid(Result)

\* The part of C40 that does not depend on which return statement a query
\* takes: a stored or interpolated result is valid, a default one is not.
C40_ValidExactlyWhenFound ==
    queried => (IsValid(Result) <=> ResultKind \in {"Stored", "Interpolated"})
====
